---- MODULE Spec2Model ----
(***************************************************************************)
(* A model of School_WordSearch: the page fetcher (WebScraper.scrape_page), *)
(* the site crawl (WebScraper.scrape_site), the shared URL cache (URLCache) *)
(* and scrape_school_urls, from src/web_scraper.py; the reuse of search     *)
(* results in process_school and the batch of run(), from src/main.py,      *)
(* src/term_searcher.py and src/csv_generator.py.                           *)
(***************************************************************************)
EXTENDS Integers, Sequences, FiniteSets, TLC

VARIABLES
    cfg,            \* WebScraper: ssl_fallback, ssl_retry_unverified, cloudscraper_session
    visited_urls,   \* WebScraper.visited_urls
    scraped_pages,  \* WebScraper.scraped_pages
    current_delay,          \* WebScraper.current_delay, in milliseconds
    consecutive_errors,     \* WebScraper.consecutive_errors
    consecutive_successes,  \* WebScraper.consecutive_successes
    last,           \* the last scrape_page call: its arguments and what it did
    ppc,            \* position of the caller of scrape_page
    world,          \* the web a crawl runs against
    site,           \* scrape_site: base_url, base_domain, max_depth, max_pages
    url_queue,      \* scrape_site: the queue of (url, depth)
    spc,            \* position of scrape_site: idle, loop, done
    url_cache,      \* _global_url_cache._cache: canonical key -> entry
    lists,          \* the scraped_pages list object of each task's scraper
    heap,           \* the page dictionaries: the site crawled and the source tag
    tasks,          \* the scrape_school_urls call of each worker thread
    set_log,        \* the URLCache.set calls, in the order they took the lock
    norm_in,        \* normalize_url_for_cache: a URL and the same URL with a slash added
    norm_out,       \* normalize_url_for_cache: the results of the calls made so far
    search_results_cache,   \* ScraperOrchestrator._search_results_cache
    results,        \* process_school: the result dictionary of each task
    page_matches,   \* the matches of the search terms in a page of each site
    csv,            \* the results CSV: one row per appended record
    progress_file,  \* the checkpoint file
    run,            \* ScraperOrchestrator.run and the process that runs it
    locks,          \* csv_lock, progress_lock and the threads inside the two writes
    search_in,      \* TermSearcher: a page text, search_terms and context_length
    search_out,     \* the result of the last call of the searcher
    fetched         \* the scrape_page calls of the crawl that went to the network, in order

scraperVars == <<cfg, visited_urls, scraped_pages>>

delayVars == <<current_delay, consecutive_errors, consecutive_successes>>

pageVars == <<last, ppc>>

siteVars == <<world, site, url_queue, spc, fetched>>

cacheVars == <<url_cache, lists, heap, tasks, set_log>>

normVars == <<norm_in, norm_out>>

searchVars == <<search_in, search_out>>

reuseVars == <<search_results_cache, results, page_matches>>

runVars == <<csv, progress_file, run, locks>>

\* what a call of scrape_page and a crawl leave alone
nonCrawlVars == <<cacheVars, normVars, searchVars, reuseVars, runVars>>

vars == <<scraperVars, delayVars, pageVars, siteVars, cacheVars, normVars, searchVars, reuseVars, runVars>>

-----------------------------------------------------------------------------
(* URLs, as urlparse sees them: scheme, netloc, path.                      *)

U(h, p) == [scheme |-> "https", host |-> h, path |-> p]

NoURL == [scheme |-> "", host |-> "", path |-> ""]

NoDomain == ""

UrlA == U("d", "/")
UrlB == U("d", "/b")
UrlC == U("d", "/c")
UrlS == U("d", "/files/f")
UrlE == U("x", "/e")
UrlM == [scheme |-> "mailto", host |-> "", path |-> "m@d"]

Hosts == {"d", "x"}

URLSet == {UrlA, UrlB, UrlC, UrlS, UrlE}

netloc(url) == url.host

\* WebScraper.is_valid_url
is_valid_url(url) ==
    /\ url # NoURL
    /\ url.scheme # "mailto"
    /\ url.scheme # "" /\ netloc(url) # ""
    /\ url.scheme \in {"http", "https"}

\* WebScraper.is_same_domain
is_same_domain(url1, url2) == netloc(url1) = netloc(url2)

\* config.SCRAPING_CONFIG["skip_url_patterns"], the one pattern the paths of URLSet can match
skip_url_patterns == {"/files/"}

\* re.search(pattern, url_lower, re.IGNORECASE) over the paths of URLSet
re_search(pattern, url) ==
    /\ pattern = "/files/"
    /\ url.path \in {"/files/f"}

\* WebScraper.should_skip_url
should_skip_url(url) == \E pattern \in skip_url_patterns : re_search(pattern, url)

-----------------------------------------------------------------------------
(* The web: what a server answers.  redir[u] is the Location of a 302 (or  *)
(* NoURL), csredir[u] a Location served to the browser-mimicking client    *)
(* only, plain[u] and cs[u] what the plain and the browser-mimicking       *)
(* client get at u, tls[h] the state of host h's TLS, links[u] the anchors *)
(* of u's content and text[u] its visible text.                            *)

Outcomes == {"ok", "bot", "http_err", "conn", "unexpected"}

TlsKinds == {"good", "handshake", "hard", "other"}

NoBody == [doc |-> NoURL, variant |-> "none"]

NoResp == [status_code |-> 0, url |-> NoURL, location |-> NoURL, body |-> NoBody]

NoExc == [type |-> "none", handshake |-> FALSE, host |-> "", response |-> NoResp]

Resp(st, u, loc, variant) ==
    [status_code |-> st, url |-> u, location |-> loc, body |-> [doc |-> u, variant |-> variant]]

Exc(type, hs, h, r) == [type |-> type, handshake |-> hs, host |-> h, response |-> r]

\* one HTTP exchange with the server of u, no redirect followed
Send(w, client, u, verify) ==
    LET t == w.tls[u.host]
        o == IF client = "cloudscraper" THEN w.cs[u] ELSE w.plain[u]
        loc == IF client = "cloudscraper" /\ w.csredir[u] # NoURL
               THEN w.csredir[u] ELSE w.redir[u]
    IN  IF (verify /\ t # "good") \/ (~verify /\ t = "hard")
        THEN [kind |-> "exc", resp |-> NoResp,
              exc |-> Exc("SSLError", t # "other", u.host, NoResp)]
        ELSE IF loc # NoURL
        THEN [kind |-> "resp", resp |-> Resp(302, u, loc, "empty"), exc |-> NoExc]
        ELSE IF o = "conn"
        THEN [kind |-> "exc", resp |-> NoResp,
              exc |-> Exc("ConnectionError", FALSE, u.host, NoResp)]
        ELSE IF o = "unexpected"
        THEN [kind |-> "exc", resp |-> NoResp,
              exc |-> Exc("Exception", FALSE, u.host, NoResp)]
        ELSE IF o = "http_err"
        THEN [kind |-> "resp", resp |-> Resp(403, u, NoURL, "error"), exc |-> NoExc]
        ELSE IF o = "bot"
        THEN [kind |-> "resp", resp |-> Resp(200, u, NoURL, "challenge"), exc |-> NoExc]
        ELSE [kind |-> "resp", resp |-> Resp(200, u, NoURL, "content"), exc |-> NoExc]

\* the redirect cap of the HTTP client (Session.max_redirects)
MaxRedirects == 3

RedirectCodes == {301, 302, 303, 307, 308}

RECURSIVE Follow(_, _, _, _, _, _)
\* session.get(u, allow_redirects=True): every hop is requested in turn
Follow(w, client, u, verify, n, hops) ==
    LET s == Send(w, client, u, verify)
        h == Append(hops, u)
    IN  IF s.kind = "exc" THEN [kind |-> "exc", resp |-> NoResp, exc |-> s.exc, hops |-> h]
        ELSE IF s.resp.status_code \in RedirectCodes /\ s.resp.location # NoURL
        THEN IF n = 0
             THEN [kind |-> "exc", resp |-> NoResp, hops |-> h,
                   exc |-> Exc("TooManyRedirects", FALSE, "", NoResp)]
             ELSE Follow(w, client, s.resp.location, verify, n - 1, h)
        ELSE [kind |-> "resp", resp |-> s.resp, exc |-> NoExc, hops |-> h]

\* session.get(url, allow_redirects=..., verify=...)
get(w, client, url, allow_redirects, verify) ==
    IF allow_redirects
    THEN Follow(w, client, url, verify, MaxRedirects, <<>>)
    ELSE LET s == Send(w, client, url, verify)
         IN  [kind |-> s.kind, resp |-> s.resp, exc |-> s.exc, hops |-> <<url>>]

\* bool(response) of the HTTP library: Response.ok
ResponseBool(r) == r # NoResp /\ r.status_code < 400

-----------------------------------------------------------------------------
(* Content extraction.  A text is identified by the document and variant   *)
(* it was extracted from, so that texts of different responses differ.     *)

NoText == [doc |-> NoURL, variant |-> "none", len |-> 0, term |-> FALSE]

\* WebScraper.extract_text
extract_text(w, html_content) ==
    IF html_content.variant \in {"none", "empty"} THEN [NoText EXCEPT !.variant = "empty"]
    ELSE IF html_content.variant = "content"
    THEN [doc |-> html_content.doc, variant |-> "content",
          len |-> w.text[html_content.doc].len, term |-> w.text[html_content.doc].term]
    ELSE [doc |-> html_content.doc, variant |-> html_content.variant, len |-> 40, term |-> FALSE]

\* the anchors soup.find_all('a', href=True) finds in a body
Anchors(w, html_content) ==
    IF html_content.variant = "content" THEN w.links[html_content.doc]
    ELSE IF html_content.variant = "error" THEN {UrlA, UrlM}
    ELSE {}

\* WebScraper.extract_links
extract_links(w, html_content, base_url, base_domain) ==
    LET bd == IF base_domain = NoDomain THEN netloc(base_url) ELSE base_domain
    IN  {full_url \in Anchors(w, html_content) :
            /\ is_valid_url(full_url)
            /\ IF bd # NoDomain THEN netloc(full_url) = bd
               ELSE is_same_domain(full_url, base_url)}

\* WebScraper.is_bot_protection_page
is_bot_protection_page(html_content) ==
    \/ html_content.variant \in {"none", "empty"}
    \/ html_content.variant = "challenge"

-----------------------------------------------------------------------------
(* WebScraper.scrape_page                                                  *)

\* one get of a call: its client, URL and verify argument, the hops it
\* requested and the exception it raised (NoExc when it returned)
Req(client, url, verify, g) ==
    [client |-> client, url |-> url, verify |-> verify, hops |-> g.hops, exc |-> g.exc]

\* a comparison that never reports another domain
is_external_redirect_never(base_domain, check_url) == FALSE

\* the local helper is_external_redirect of scrape_page
is_external_redirect(base_domain, check_url) ==
    IF base_domain = NoDomain THEN FALSE ELSE netloc(check_url) # base_domain

\* "base_domain and base_domain not in str(e)"
ErrorFromExternalDomain(base_domain, e) ==
    base_domain # NoDomain /\ e.host # base_domain

\* "e.response and base_domain" and the comparison of the response's domain
HttpErrorFromExternalDomain(base_domain, e) ==
    /\ ResponseBool(e.response)
    /\ base_domain # NoDomain
    /\ netloc(e.response.url) # base_domain

\* response.raise_for_status(); final_url = response.url; the check of final_url
AfterGet(base_domain, g, reqs) ==
    IF g.kind = "exc"
    THEN [st |-> "raise", resp |-> NoResp, exc |-> g.exc, reqs |-> reqs]
    ELSE IF g.resp.status_code >= 400
    THEN [st |-> "raise", resp |-> NoResp, reqs |-> reqs,
          exc |-> Exc("HTTPError", FALSE, netloc(g.resp.url), g.resp)]
    ELSE IF is_external_redirect(base_domain, g.resp.url)
    THEN [st |-> "none", resp |-> NoResp, exc |-> NoExc, reqs |-> reqs]
    ELSE [st |-> "ok", resp |-> g.resp, exc |-> NoExc, reqs |-> reqs]

\* lines 617-637: the first response is a redirect whose Location is checked
\* and then followed with allow_redirects=True, or it is the final response
AfterFirstGet(w, client, url, verify1, verify2, base_domain, g1) ==
    IF g1.kind = "resp" /\ g1.resp.status_code \in RedirectCodes
                        /\ g1.resp.location # NoURL
    THEN IF is_external_redirect(base_domain, g1.resp.location)
         THEN [st |-> "none", resp |-> NoResp, exc |-> NoExc,
               reqs |-> <<Req(client, url, verify1, g1)>>]
         ELSE AfterGet(base_domain, get(w, client, g1.resp.location, TRUE, verify2),
                       <<Req(client, url, verify1, g1),
                         Req(client, g1.resp.location, verify2,
                             get(w, client, g1.resp.location, TRUE, verify2))>>)
    ELSE AfterGet(base_domain, g1, <<Req(client, url, verify1, g1)>>)

\* get(url, allow_redirects=False), the check of the first Location, then
\* get(redirect_url, allow_redirects=True)
ManualFetch(w, client, url, verify1, verify2, base_domain) ==
    AfterFirstGet(w, client, url, verify1, verify2, base_domain,
                  get(w, client, url, FALSE, verify1))

\* get(url, allow_redirects=True, verify=...), raise_for_status, check of the final URL
AutoFetch(w, client, url, verify, base_domain) ==
    AfterGet(base_domain, get(w, client, url, TRUE, verify),
             <<Req(client, url, verify, get(w, client, url, TRUE, verify))>>)

Frame0(url) ==
    [ret |-> "run", response |-> NoResp, final_url |-> url, used_cloudscraper |-> FALSE,
     exc |-> NoExc, reqs |-> <<>>, layer |-> "none"]

FrameOk(f, m, used, layer) ==
    [f EXCEPT !.response = m.resp, !.final_url = m.resp.url,
              !.used_cloudscraper = used, !.reqs = f.reqs \o m.reqs, !.layer = layer]

FrameNone(f, reqs) == [f EXCEPT !.ret = "none", !.response = NoResp, !.reqs = f.reqs \o reqs]

FrameRaise(f, e, reqs) ==
    [f EXCEPT !.ret = "raise", !.response = NoResp, !.exc = e, !.reqs = f.reqs \o reqs]

FrameKeep(f, reqs) == [f EXCEPT !.reqs = f.reqs \o reqs]

\* lines 647-674: the unverified attempt of the browser-mimicking client
CloudscraperFallback(f2, m2) ==
    CASE m2.st = "ok" -> FrameOk(f2, m2, TRUE, "cloudscraper_unverified")
      [] m2.st = "none" -> FrameNone(f2, m2.reqs)
      [] OTHER -> FrameKeep(f2, m2.reqs)

\* lines 631-692: what follows the first attempt m of the browser-mimicking client
CloudscraperOutcome(w, c, url, base_domain, f, m) ==
    CASE m.st = "ok" -> FrameOk(f, m, TRUE, "cloudscraper")
      [] m.st = "none" -> FrameNone(f, m.reqs)
      [] m.st = "raise" /\ m.exc.type = "SSLError" ->
           IF ErrorFromExternalDomain(base_domain, m.exc)
           THEN FrameNone(f, m.reqs)
           ELSE IF c.ssl_fallback /\ m.exc.handshake
           THEN CloudscraperFallback(FrameKeep(f, m.reqs),
                    ManualFetch(w, "cloudscraper", url, FALSE, FALSE, base_domain))
           ELSE FrameKeep(f, m.reqs)
      [] m.st = "raise" /\ m.exc.type = "HTTPError" ->
           IF HttpErrorFromExternalDomain(base_domain, m.exc)
           THEN FrameNone(f, m.reqs)
           ELSE FrameKeep(f, m.reqs)
      [] OTHER -> FrameKeep(f, m.reqs)

\* lines 607-692: the browser-mimicking client first
CloudscraperFirst(w, c, url, use_cloudscraper_first, base_domain) ==
    IF ~(use_cloudscraper_first /\ c.cloudscraper_session) THEN Frame0(url)
    ELSE CloudscraperOutcome(w, c, url, base_domain, Frame0(url),
             ManualFetch(w, "cloudscraper", url, c.verify_ssl, c.verify_ssl, base_domain))

\* lines 734-760: the unverified attempt of the plain session; a failure is re-raised
RegularFallback(f2, m2) ==
    CASE m2.st = "ok" -> FrameOk(f2, m2, f2.used_cloudscraper, "plain_unverified")
      [] m2.st = "none" -> FrameNone(f2, m2.reqs)
      [] OTHER -> FrameRaise(f2, m2.exc, m2.reqs)

\* lines 720-773: what follows the first attempt m of the plain session
RegularOutcome(w, c, url, base_domain, f, m) ==
    CASE m.st = "ok" -> FrameOk(f, m, f.used_cloudscraper, "plain")
      [] m.st = "none" -> FrameNone(f, m.reqs)
      [] m.st = "raise" /\ m.exc.type = "SSLError" ->
           IF ErrorFromExternalDomain(base_domain, m.exc)
           THEN FrameNone(f, m.reqs)
           ELSE IF c.ssl_fallback /\ m.exc.handshake
           THEN RegularFallback(FrameKeep(f, m.reqs),
                    ManualFetch(w, "plain", url, FALSE, FALSE, base_domain))
           ELSE FrameRaise(f, m.exc, m.reqs)
      [] m.st = "raise" /\ m.exc.type = "HTTPError" ->
           IF HttpErrorFromExternalDomain(base_domain, m.exc)
           THEN FrameNone(f, m.reqs)
           ELSE FrameRaise(f, m.exc, m.reqs)
      [] OTHER -> FrameRaise(f, m.exc, m.reqs)

\* lines 695-773: the plain session, when no response was obtained before
RegularSession(w, c, url, base_domain, f) ==
    IF f.ret = "run" /\ f.response = NoResp
    THEN RegularOutcome(w, c, url, base_domain, f,
             ManualFetch(w, "plain", url, TRUE, c.verify_ssl, base_domain))
    ELSE f

\* lines 937-971: the last-resort unverified attempt a
LastResort(f, a) ==
    IF a.st = "ok"
    THEN [FrameOk(f, a, f.used_cloudscraper, "last_resort") EXCEPT !.ret = "run",
                                                                    !.exc = NoExc]
    ELSE FrameNone(f, a.reqs)

\* handlers without the final "except Exception": what is neither an SSL nor
\* a requests error is not handled
HandleExceptionClassified(w, c, url, base_domain, f) ==
    IF f.ret # "raise" THEN f
    ELSE IF f.exc.type = "SSLError"
    THEN IF ErrorFromExternalDomain(base_domain, f.exc) THEN FrameNone(f, <<>>)
         ELSE IF c.ssl_retry_unverified /\ f.exc.handshake
         THEN LastResort(f, AutoFetch(w, "plain", url, FALSE, base_domain))
         ELSE FrameNone(f, <<>>)
    ELSE IF f.exc.type = "Exception" THEN f
    ELSE FrameNone(f, <<>>)

\* handlers whose last-resort attempt does not consult ssl_retry_with_unverified
HandleExceptionAlways(w, c, url, base_domain, f) ==
    IF f.ret # "raise" THEN f
    ELSE IF f.exc.type = "SSLError"
    THEN IF ErrorFromExternalDomain(base_domain, f.exc) THEN FrameNone(f, <<>>)
         ELSE IF f.exc.handshake
         THEN LastResort(f, AutoFetch(w, "plain", url, FALSE, base_domain))
         ELSE FrameNone(f, <<>>)
    ELSE FrameNone(f, <<>>)

\* lines 929-1070: the handlers of the outer try
HandleException(w, c, url, base_domain, f) ==
    IF f.ret # "raise" THEN f
    ELSE IF f.exc.type = "SSLError"
    THEN IF ErrorFromExternalDomain(base_domain, f.exc) THEN FrameNone(f, <<>>)
         ELSE IF c.ssl_retry_unverified /\ f.exc.handshake
         THEN LastResort(f, AutoFetch(w, "plain", url, FALSE, base_domain))
         ELSE FrameNone(f, <<>>)
    ELSE FrameNone(f, <<>>)

\* the value of the variable response after a retry that raised: the get that
\* returned has already assigned it (lines 804-809, 826-832)
ResponseAfterFailedRetry(original, e) ==
    IF e.response # NoResp THEN e.response ELSE original

Bot(f, orig, bot, retry) == [f |-> f, orig |-> orig, bot |-> bot, retry |-> retry]

\* lines 825-841: the unverified retry a2 of the browser-mimicking client
BotRetryFallback(f, f1, a2) ==
    CASE a2.st = "ok" -> Bot(FrameOk(f1, a2, TRUE, "bot_retry_unverified"),
                             f.response, TRUE, "ok")
      [] a2.st = "none" -> Bot(FrameNone(f1, a2.reqs), f.response, TRUE, "external")
      [] OTHER -> Bot([FrameKeep(f1, a2.reqs) EXCEPT !.response =
                          ResponseAfterFailedRetry(f.response, a2.exc)],
                      f.response, TRUE, "failed")

\* lines 802-861: what follows the retry a with the browser-mimicking client
BotRetryOutcome(w, c, url, base_domain, f, a) ==
    CASE a.st = "ok" -> Bot(FrameOk(f, a, TRUE, "bot_retry"), f.response, TRUE, "ok")
      [] a.st = "none" -> Bot(FrameNone(f, a.reqs), f.response, TRUE, "external")
      [] a.st = "raise" /\ a.exc.type = "SSLError" ->
           IF ErrorFromExternalDomain(base_domain, a.exc)
           THEN Bot(FrameNone(f, a.reqs), f.response, TRUE, "external")
           ELSE IF c.ssl_fallback /\ a.exc.handshake
           THEN BotRetryFallback(f, FrameKeep(f, a.reqs),
                    AutoFetch(w, "cloudscraper", url, FALSE, base_domain))
           ELSE Bot(FrameKeep(f, a.reqs), f.response, TRUE, "failed")
      [] a.st = "raise" /\ a.exc.type = "HTTPError" ->
           IF HttpErrorFromExternalDomain(base_domain, a.exc)
           THEN Bot(FrameNone(f, a.reqs), f.response, TRUE, "external")
           ELSE Bot([FrameKeep(f, a.reqs) EXCEPT !.response =
                        ResponseAfterFailedRetry(f.response, a.exc)],
                    f.response, TRUE, "failed")
      [] OTHER -> Bot([FrameKeep(f, a.reqs) EXCEPT !.response =
                          ResponseAfterFailedRetry(f.response, a.exc)],
                      f.response, TRUE, "failed")

\* lines 791-878: detection of bot protection and the retry
BotProtectionRetry(w, c, url, base_domain, f) ==
    IF ~(is_bot_protection_page(f.response.body) /\ ~f.used_cloudscraper)
    THEN Bot(f, f.response, FALSE, "no")
    ELSE IF ~c.cloudscraper_session
    THEN Bot(f, f.response, TRUE, "unavailable")
    ELSE BotRetryOutcome(w, c, url, base_domain, f,
             AutoFetch(w, "cloudscraper", url, c.verify_ssl, base_domain))

NoPage == [url |-> NoURL, text |-> NoText, links |-> {}, status_code |-> 0]

\* lines 880-916 and 949-962: page_data
PageData(w, response, final_url, base_domain) ==
    [url |-> final_url,
     text |-> extract_text(w, response.body),
     links |-> extract_links(w, response.body, final_url, base_domain),
     status_code |-> response.status_code]

\* every URL a call requested, redirect hops included
HopsOf(res) ==
    UNION {{r.hops[i] : i \in 1..Len(r.hops)} : r \in {res.reqs[j] : j \in 1..Len(res.reqs)}}

NoneResult(reqs) ==
    [page |-> NoPage, reqs |-> reqs, orig |-> NoResp, bot |-> FALSE, retry |-> "no",
     layer |-> "none", raised |-> FALSE]

\* lines 880-927: the page built from the response the bot-protection step left
FinishPage(w, base_domain, b) ==
    IF b.f.ret = "none"
    THEN [NoneResult(b.f.reqs) EXCEPT !.orig = b.orig, !.bot = b.bot, !.retry = b.retry]
    ELSE [page |-> PageData(w, b.f.response, b.f.final_url, base_domain),
          reqs |-> b.f.reqs, orig |-> b.orig, bot |-> b.bot, retry |-> b.retry,
          layer |-> b.f.layer, raised |-> FALSE]

\* lines 775-927 and 945-969: what follows the attempts, whose outcome is p3;
\* an exception no handler took leaves scrape_page (raised)
AfterAttempts(w, c, url, base_domain, p3) ==
    IF p3.ret = "none" THEN NoneResult(p3.reqs)
    ELSE IF p3.ret = "raise" THEN [NoneResult(p3.reqs) EXCEPT !.raised = TRUE]
    ELSE IF p3.layer = "last_resort"
    THEN [page |-> PageData(w, p3.response, p3.final_url, base_domain),
          reqs |-> p3.reqs, orig |-> p3.response, bot |-> FALSE, retry |-> "no",
          layer |-> p3.layer, raised |-> FALSE]
    ELSE IF base_domain # NoDomain /\ is_external_redirect(base_domain, p3.final_url)
    THEN NoneResult(p3.reqs)
    ELSE FinishPage(w, base_domain, BotProtectionRetry(w, c, url, base_domain, p3))

\* scrape_page as a function of the web: the page returned (or NoPage), the
\* requests it issued, and what the bot-protection step saw
ScrapePage(w, c, visited, url, use_cloudscraper_first, base_domain) ==
    IF ~is_valid_url(url) \/ url \in visited THEN NoneResult(<<>>)
    ELSE AfterAttempts(w, c, url, base_domain,
             HandleException(w, c, url, base_domain,
                 RegularSession(w, c, url, base_domain,
                     CloudscraperFirst(w, c, url, use_cloudscraper_first, base_domain))))

-----------------------------------------------------------------------------
(* The webs a single scrape_page call is checked against: every redirect   *)
(* map over UrlA < UrlB < UrlE < UrlC that goes forward (and a loop on     *)
(* UrlA), a redirect of UrlC to the other host for the browser-mimicking   *)
(* client only, every pair of client outcomes, every TLS state of the      *)
(* job's host and a broken TLS on the other host.                          *)

RichText == [len |-> 300, term |-> TRUE]

TlsChoices ==
    {[h \in Hosts |-> IF h = "d" THEN k ELSE "good"] : k \in TlsKinds}
        \cup {[h \in Hosts |-> IF h = "x" THEN "handshake" ELSE "good"]}

PageWorld(ra, rb, re, rc, po, co, t) ==
    [redir |-> [u \in URLSet |-> IF u = UrlA THEN ra ELSE IF u = UrlB THEN rb
                                 ELSE IF u = UrlE THEN re ELSE NoURL],
     csredir |-> [u \in URLSet |-> IF u = UrlC THEN rc ELSE NoURL],
     plain |-> [u \in URLSet |-> po],
     cs    |-> [u \in URLSet |-> co],
     tls   |-> t,
     links |-> [u \in URLSet |-> {UrlB, UrlE, UrlM}],
     text  |-> [u \in URLSet |-> RichText]]

PageWorlds ==
    {PageWorld(ra, rb, re, rc, po, co, t) :
        ra \in {NoURL, UrlA, UrlB, UrlE, UrlC}, rb \in {NoURL, UrlE, UrlC},
        re \in {NoURL, UrlC}, rc \in {NoURL, UrlE}, po \in Outcomes, co \in Outcomes \ {"bot"},
        t \in TlsChoices}

\* config.SCRAPING_CONFIG: delay, min_delay, max_delay, in milliseconds
delay == 2000
min_delay == 300
max_delay == 2000

\* config.SCRAPING_CONFIG: max_depth, max_pages_per_site, min_content_length
config_max_depth == 10
config_max_pages_per_site == 1500
min_content_length == 200

NoWorld == PageWorld(NoURL, NoURL, NoURL, NoURL, "ok", "ok", [h \in Hosts |-> "good"])

NoSite ==
    [base_url |-> NoURL, base_domain |-> NoDomain, max_depth |-> 0, max_pages |-> 0,
     args |-> [max_depth |-> 0, max_pages |-> 0]]

Configs ==
    [verify_ssl : {TRUE}, ssl_fallback : BOOLEAN, ssl_retry_unverified : BOOLEAN,
     cloudscraper_session : BOOLEAN]

NoCall ==
    [url |-> NoURL, use_cloudscraper_first |-> FALSE, add_to_scraped_pages |-> FALSE,
     base_domain |-> NoDomain, res |-> NoneResult(<<>>), called |-> FALSE]

\* no worker thread runs
CacheOff ==
    /\ url_cache = <<>> /\ lists = <<>> /\ heap = <<>> /\ tasks = <<>> /\ set_log = <<>>

\* normalize_url_for_cache is not under study
NormOff == norm_in = <<>> /\ norm_out = <<>>

\* the searcher is not under study
SearchOff == search_in = <<>> /\ search_out = <<>>

\* no school has been processed
ReuseOff == search_results_cache = <<>> /\ results = <<>> /\ page_matches = <<>>

\* no batch runs
RunOff == csv = <<>> /\ progress_file = <<>> /\ run = <<>> /\ locks = <<>>

\* WebScraper.__init__: a fresh scraper
InitPage ==
    /\ cfg \in Configs
    /\ visited_urls = {}
    /\ scraped_pages = <<>>
    /\ last = NoCall
    /\ ppc = "idle"
    /\ current_delay = delay /\ consecutive_errors = 0 /\ consecutive_successes = 0
    /\ world = NoWorld /\ site = NoSite /\ url_queue = <<>> /\ spc = "off"
    /\ fetched = <<>>
    /\ CacheOff /\ NormOff /\ SearchOff /\ ReuseOff /\ RunOff

\* the effect of scrape_page on the scraper: lines 918-927 and 963-967
ScrapePageEffect(res, url, add_to_scraped_pages) ==
    IF res.page = NoPage
    THEN UNCHANGED <<visited_urls, scraped_pages>>
    ELSE /\ visited_urls' = visited_urls \cup {url, res.page.url}
         /\ scraped_pages' = IF add_to_scraped_pages
                             THEN Append(scraped_pages, res.page) ELSE scraped_pages

\* the call's effect on the scraper and the record of the call
ScrapePageCalled(url, use_cloudscraper_first, add_to_scraped_pages, base_domain, res) ==
    /\ ScrapePageEffect(res, url, add_to_scraped_pages)
    /\ last' = [url |-> url, use_cloudscraper_first |-> use_cloudscraper_first,
                add_to_scraped_pages |-> add_to_scraped_pages,
                base_domain |-> base_domain, res |-> res, called |-> TRUE]

\* one call of scrape_page on the scraper, against any web
ScrapePageCall ==
    /\ ppc = "idle"
    /\ \E w \in PageWorlds, url \in {UrlA, UrlB, UrlE, UrlM},
          use_cloudscraper_first \in BOOLEAN, add_to_scraped_pages \in BOOLEAN,
          base_domain \in {"d", NoDomain} :
          ScrapePageCalled(url, use_cloudscraper_first, add_to_scraped_pages, base_domain,
              ScrapePage(w, cfg, visited_urls, url, use_cloudscraper_first, base_domain))
    /\ ppc' = "called"
    /\ UNCHANGED <<cfg, delayVars, siteVars, nonCrawlVars>>

\* the caller drops the scraper and constructs a new one
NewScraper ==
    /\ ppc = "called"
    /\ visited_urls' = {}
    /\ scraped_pages' = <<>>
    /\ last' = NoCall
    /\ ppc' = "idle"
    /\ UNCHANGED <<cfg, delayVars, siteVars, nonCrawlVars>>

NextPage == ScrapePageCall \/ NewScraper

SpecPage == InitPage /\ [][NextPage]_vars

-----------------------------------------------------------------------------
(* WebScraper.scrape_site: one crawl of a site against a fixed web.        *)

ThinText == [len |-> 120, term |-> FALSE]

\* texts below min_content_length that contain a search term: one of 120
\* characters and one below the 50 characters of has_relevant_content
ShortRelevantText == [len |-> 120, term |-> TRUE]
TinyRelevantText == [len |-> 40, term |-> TRUE]

\* config.SCRAPING_CONFIG: quick_content_check, require_relevant_content
quick_content_check == TRUE
require_relevant_content == FALSE

\* WebScraper.has_relevant_content
has_relevant_content(text) ==
    IF text.len = 0 \/ text.len < 50 THEN FALSE ELSE text.term

\* WebScraper.is_minimal_content_page
is_minimal_content_page(text) == text.len < min_content_length

\* the webs of a crawl: UrlA links to la, UrlB to lb, UrlC to lc, UrlS to UrlC;
\* UrlB redirects to rb, UrlC answers oc, UrlB's text is tb
SiteWorld(la, lb, lc, rb, oc, tb) ==
    [redir |-> [u \in URLSet |-> IF u = UrlB THEN rb ELSE NoURL],
     csredir |-> [u \in URLSet |-> NoURL],
     plain |-> [u \in URLSet |-> IF u = UrlC THEN oc ELSE "ok"],
     cs    |-> [u \in URLSet |-> IF u = UrlC THEN oc ELSE "ok"],
     tls   |-> [h \in Hosts |-> "good"],
     links |-> [u \in URLSet |-> IF u = UrlA THEN la ELSE IF u = UrlB THEN lb
                                 ELSE IF u = UrlC THEN lc
                                 ELSE IF u = UrlS THEN {UrlC} ELSE {}],
     text  |-> [u \in URLSet |-> IF u = UrlB THEN tb ELSE RichText]]

SiteWorlds ==
    {SiteWorld(la, lb, lc, rb, oc, tb) :
        la \in {X \in SUBSET {UrlB, UrlC, UrlS, UrlE} : UrlB \in X \/ UrlC \in X},
        lb \in SUBSET {UrlC, UrlS}, lc \in {{}, {UrlB}},
        rb \in {NoURL, UrlC, UrlS, UrlE}, oc \in {"ok", "http_err"},
        tb \in {RichText, ThinText, ShortRelevantText, TinyRelevantText}}

\* the largest max_depth and max_pages a crawl is called with (0 stands for
\* an argument left out)
MaxDepthArg == 2
MaxPagesArg == 2

\* WebScraper.__init__ followed by a crawl against some web
InitSite ==
    /\ cfg = [verify_ssl |-> TRUE, ssl_fallback |-> TRUE, ssl_retry_unverified |-> TRUE,
              cloudscraper_session |-> TRUE]
    /\ visited_urls = {}
    /\ scraped_pages = <<>>
    /\ current_delay = delay /\ consecutive_errors = 0 /\ consecutive_successes = 0
    /\ last = NoCall /\ ppc = "off"
    /\ world \in SiteWorlds
    /\ site = NoSite /\ url_queue = <<>> /\ spc = "idle"
    /\ fetched = <<>>
    /\ CacheOff /\ NormOff /\ SearchOff /\ ReuseOff /\ RunOff

\* lines 1085-1105: the arguments, the clearing of the scraper, the seed
ScrapeSiteCall ==
    /\ spc = "idle"
    /\ \E base_url \in {UrlA, UrlS, UrlM}, max_depth \in 0..MaxDepthArg,
          max_pages \in 0..MaxPagesArg :
          IF ~is_valid_url(base_url)
          THEN /\ spc' = "done"
               /\ site' = [NoSite EXCEPT !.base_url = base_url]
               /\ UNCHANGED <<visited_urls, scraped_pages, url_queue>>
          ELSE /\ site' = [base_url |-> base_url, base_domain |-> netloc(base_url),
                           max_depth |-> IF max_depth = 0 THEN config_max_depth
                                         ELSE max_depth,
                           max_pages |-> IF max_pages = 0 THEN config_max_pages_per_site
                                         ELSE max_pages,
                           args |-> [max_depth |-> max_depth, max_pages |-> max_pages]]
               /\ visited_urls' = {}
               /\ scraped_pages' = <<>>
               /\ url_queue' = <<[url |-> base_url, depth |-> 0]>>
               /\ spc' = "loop"
    /\ UNCHANGED <<cfg, delayVars, pageVars, world, fetched, nonCrawlVars>>

\* the while loop without its bound on the collected pages
LoopConditionUncapped == url_queue # <<>>

\* line 1107: the condition of the while loop
LoopCondition == url_queue # <<>> /\ Len(scraped_pages) < site.max_pages

\* lines 1111-1128: entries that are popped and dropped
SkipEntry(e) ==
    \/ e.url \in visited_urls
    \/ e.depth > site.max_depth
    \/ netloc(e.url) # site.base_domain

\* an entry that is not fetched and stays at the head of the queue
LoopSkipKeepsEntry ==
    /\ spc = "loop" /\ LoopCondition
    /\ SkipEntry(Head(url_queue))
    /\ url_queue' = url_queue
    /\ UNCHANGED <<scraperVars, delayVars, pageVars, world, site, spc, fetched, nonCrawlVars>>

\* lines 1108-1128: pop an entry that is not fetched
LoopSkip ==
    /\ spc = "loop" /\ LoopCondition
    /\ SkipEntry(Head(url_queue))
    /\ url_queue' = Tail(url_queue)
    /\ UNCHANGED <<scraperVars, delayVars, pageVars, world, site, spc, fetched, nonCrawlVars>>

\* lines 1153-1172: whether the links of a fetched page are followed
ShouldFollowLinks(should_skip_content, text_content) ==
    IF should_skip_content THEN TRUE
    ELSE IF ~quick_content_check THEN TRUE
    ELSE IF is_minimal_content_page(text_content) /\ ~has_relevant_content(text_content)
    THEN FALSE
    ELSE IF require_relevant_content THEN has_relevant_content(text_content)
    ELSE TRUE

\* lines 1181-1188: the links of a page that are appended to the queue
LinksToEnqueue(links, visited) ==
    {link \in links : link \notin visited /\ ~should_skip_url(link)}

\* the orders in which list(set(links)) can enumerate a set
Orders(S) ==
    {f \in [1..Cardinality(S) -> S] : \A i, j \in 1..Cardinality(S) : f[i] = f[j] => i = j}

\* a reduction that leaves the success streak as it is
DelayAfterSuccessKeepsStreak(d, successes) ==
    IF successes > 5 /\ d > min_delay
    THEN [d |-> IF (d * 9) \div 10 > min_delay THEN (d * 9) \div 10 ELSE min_delay,
          s |-> successes]
    ELSE [d |-> d, s |-> successes]

\* a delay that is reduced after the seventh success in a row
DelayAfterSuccessLate(d, successes) ==
    IF successes > 6 /\ d > min_delay
    THEN [d |-> IF (d * 9) \div 10 > min_delay THEN (d * 9) \div 10 ELSE min_delay, s |-> 0]
    ELSE [d |-> d, s |-> successes]

\* lines 1143-1146: the delay after a successful fetch
DelayAfterSuccess(d, successes) ==
    IF successes > 5 /\ d > min_delay
    THEN [d |-> IF (d * 9) \div 10 > min_delay THEN (d * 9) \div 10 ELSE min_delay, s |-> 0]
    ELSE [d |-> d, s |-> successes]

\* lines 1198-1199: the delay after a failed fetch
DelayAfterError(d, errors) ==
    IF errors > 2
    THEN IF (d * 3) \div 2 < max_delay THEN (d * 3) \div 2 ELSE max_delay
    ELSE d

\* a fetch that enqueues the links of a page at the depth of the page itself
AfterFetchSameDepth(current_url, depth, should_skip_content, res, visited_after, follow, toq, da) ==
    /\ ScrapePageEffect(res, current_url, ~should_skip_content)
    /\ spc' = IF res.raised THEN "raised" ELSE spc
    /\ IF res.page # NoPage
       THEN /\ consecutive_successes' = da.s
            /\ consecutive_errors' = 0
            /\ current_delay' = da.d
       ELSE IF res.raised
       THEN UNCHANGED delayVars
       ELSE /\ consecutive_errors' = consecutive_errors + 1
            /\ consecutive_successes' = 0
            /\ current_delay' = DelayAfterError(current_delay, consecutive_errors + 1)
    /\ \E order \in Orders(toq) :
          url_queue' = Tail(url_queue) \o
              [i \in 1..Cardinality(toq) |-> [url |-> order[i], depth |-> depth]]
    /\ fetched' = Append(fetched,
          [url |-> current_url, depth |-> depth, skip |-> should_skip_content,
           ok |-> res.page # NoPage, page_url |-> res.page.url, text |-> res.page.text,
           raised |-> res.raised,
           hops |-> HopsOf(res), links |-> res.page.links,
           visited |-> visited_after, followed |-> follow, enqueued |-> toq,
           slept |-> IF res.page # NoPage /\ da.d > 0 THEN da.d ELSE 0])

\* lines 1133-1200: scrape_page is called outside any try, so an exception
\* it raised would leave scrape_site; otherwise
\* lines 1136-1200: the delay, the queue and the record of a fetch whose result
\* is res, the links to enqueue being toq
AfterFetch(current_url, depth, should_skip_content, res, visited_after, follow, toq, da) ==
    /\ ScrapePageEffect(res, current_url, ~should_skip_content)
    /\ spc' = IF res.raised THEN "raised" ELSE spc
    /\ IF res.page # NoPage
       THEN /\ consecutive_successes' = da.s
            /\ consecutive_errors' = 0
            /\ current_delay' = da.d
       ELSE IF res.raised
       THEN UNCHANGED delayVars
       ELSE /\ consecutive_errors' = consecutive_errors + 1
            /\ consecutive_successes' = 0
            /\ current_delay' = DelayAfterError(current_delay, consecutive_errors + 1)
    /\ \E order \in Orders(toq) :
          url_queue' = Tail(url_queue) \o
              [i \in 1..Cardinality(toq) |-> [url |-> order[i], depth |-> depth + 1]]
    /\ fetched' = Append(fetched,
          [url |-> current_url, depth |-> depth, skip |-> should_skip_content,
           ok |-> res.page # NoPage, page_url |-> res.page.url, text |-> res.page.text,
           raised |-> res.raised,
           hops |-> HopsOf(res), links |-> res.page.links,
           visited |-> visited_after, followed |-> follow, enqueued |-> toq,
           slept |-> IF res.page # NoPage /\ da.d > 0 THEN da.d ELSE 0])

\* lines 1177-1188: whether and which links of the page are enqueued
EnqueueLinks(current_url, depth, should_skip_content, res, visited_after, follow) ==
    AfterFetch(current_url, depth, should_skip_content, res, visited_after, follow,
               IF follow THEN LinksToEnqueue(res.page.links, visited_after) ELSE {},
               DelayAfterSuccess(current_delay, consecutive_successes + 1))

\* lines 1133-1178: the result res of scrape_page for the popped entry
Fetched(current_url, depth, should_skip_content, res) ==
    EnqueueLinks(current_url, depth, should_skip_content, res,
                 IF res.page = NoPage THEN visited_urls
                 ELSE visited_urls \cup {current_url, res.page.url},
                 /\ res.page # NoPage
                 /\ depth < site.max_depth
                 /\ ShouldFollowLinks(should_skip_content, res.page.text))

\* lines 1115-1134: the popped entry is fetched with scrape_page
FetchEntry(current_url, depth, should_skip_content) ==
    Fetched(current_url, depth, should_skip_content,
            ScrapePage(world, cfg, visited_urls, current_url,
                       depth = 0 /\ cfg.cloudscraper_session, site.base_domain))

\* lines 1108-1200: pop an entry, fetch it with scrape_page, adapt the delay
\* and enqueue the links of the page
LoopFetch ==
    /\ spc = "loop" /\ LoopCondition
    /\ ~SkipEntry(Head(url_queue))
    /\ FetchEntry(Head(url_queue).url, Head(url_queue).depth,
                  should_skip_url(Head(url_queue).url) /\ Head(url_queue).depth > 0)
    /\ UNCHANGED <<cfg, pageVars, world, site, nonCrawlVars>>

\* lines 1206-1207: the loop is over, scraped_pages is returned
ScrapeSiteReturn ==
    /\ spc = "loop" /\ ~LoopCondition
    /\ spc' = "done"
    /\ UNCHANGED <<scraperVars, delayVars, pageVars, world, site, url_queue, fetched, nonCrawlVars>>

NextSite == ScrapeSiteCall \/ LoopSkip \/ LoopFetch \/ ScrapeSiteReturn

SpecSite == InitSite /\ [][NextSite]_vars
\* LoopFetch can be taken exactly when the entry at the head is to be fetched
FetchEnabled == spc = "loop" /\ LoopCondition /\ ~SkipEntry(Head(url_queue))

\* weak fairness of LoopFetch, its enabling condition written out: a fetch
\* that is due is made (every request has a timeout, the redirects are capped)
FetchFair == []<>(~FetchEnabled) \/ []<><<LoopFetch>>_vars

\* a crawl that is called runs on: the loop takes its next step
SpecSiteFair ==
    /\ InitSite /\ [][NextSite]_vars
    /\ WF_vars(ScrapeSiteCall) /\ WF_vars(LoopSkip) /\ WF_vars(ScrapeSiteReturn)
    /\ FetchFair


\* single calls of scrape_page and whole crawls together
InitCrawl == InitPage \/ InitSite

NextCrawl == NextPage \/ NextSite

SpecCrawl == InitCrawl /\ [][NextCrawl]_vars

-----------------------------------------------------------------------------
(* URLCache and scrape_school_urls: worker threads sharing the URL cache.  *)

\* URL strings are sequences of characters
Https == <<"h", "t", "t", "p", "s">>

Http == <<"h", "t", "t", "p">>

\* the string scheme://host path
Url(s, h, p) == s \o <<":", "/", "/">> \o h \o p

\* None and the empty string, which "if not url" does not tell apart
None == <<>>

UrlS1 == Url(Https, <<"s">>, <<"/", "a">>)
UrlS2 == Url(Https, <<"S">>, <<"/", "a", "/">>)
UrlT1 == Url(Https, <<"t">>, <<>>)
UrlT2 == Url(Https, <<"t">>, <<"/">>)

\* the URLs the school records carry
SchoolUrlChoices == {UrlS1, UrlT1, None}

DistrictUrlChoices == {UrlS2, UrlT1, UrlT2, None}

LowerChar(ch) ==
    CASE ch = "S" -> "s" [] ch = "T" -> "t" [] ch = "A" -> "a" [] ch = "H" -> "h"
      [] ch = "P" -> "p" [] ch = "F" -> "f" [] OTHER -> ch

\* str.lower
lower(str) == [i \in 1..Len(str) |-> LowerChar(str[i])]

\* str.rstrip(ch)
RECURSIVE rstrip(_, _)
rstrip(str, ch) ==
    IF str # <<>> /\ str[Len(str)] = ch
    THEN rstrip(SubSeq(str, 1, Len(str) - 1), ch)
    ELSE str

\* the index of the first character of chs in str from index i on, or 0
RECURSIVE find(_, _, _)
find(str, chs, i) ==
    IF i > Len(str) THEN 0
    ELSE IF str[i] \in chs THEN i
    ELSE find(str, chs, i + 1)

\* the letters of the URLs of this part (the characters a scheme may hold)
Letters == {"h", "t", "p", "s", "f", "a", "q", "H", "T", "P", "S", "F", "A"}

\* urlsplit: the scheme is what precedes the first colon, at index i, when it
\* is not empty and holds scheme characters only; it is lower-cased
SplitSchemeAt(url, i) ==
    IF i > 1 /\ \A k \in 1..(i - 1) : url[k] \in Letters
    THEN [scheme |-> lower(SubSeq(url, 1, i - 1)), rest |-> SubSeq(url, i + 1, Len(url))]
    ELSE [scheme |-> <<>>, rest |-> url]

\* urlsplit: the netloc runs from after // to the first of / ? # , at index j
SplitNetlocAt(rest, j) ==
    IF j = 0
    THEN [netloc |-> SubSeq(rest, 3, Len(rest)), rest |-> <<>>]
    ELSE [netloc |-> SubSeq(rest, 3, j - 1), rest |-> SubSeq(rest, j, Len(rest))]

SplitNetloc(rest) ==
    IF Len(rest) >= 2 /\ rest[1] = "/" /\ rest[2] = "/"
    THEN SplitNetlocAt(rest, find(rest, {"/", "?", "#"}, 3))
    ELSE [netloc |-> <<>>, rest |-> rest]

\* urlsplit: the query follows the first question mark, at index j
SplitQueryAt(rest, j) ==
    IF j = 0
    THEN [path |-> rest, query |-> <<>>]
    ELSE [path |-> SubSeq(rest, 1, j - 1), query |-> SubSeq(rest, j + 1, Len(rest))]

Parsed(scheme, nl, pq) ==
    [scheme |-> scheme, netloc |-> nl, path |-> pq.path, query |-> pq.query]

ParsedAfterScheme(scheme, n) ==
    Parsed(scheme, n.netloc, SplitQueryAt(n.rest, find(n.rest, {"?"}, 1)))

ParsedFrom(sp) == ParsedAfterScheme(sp.scheme, SplitNetloc(sp.rest))

\* urllib.parse.urlparse on a URL without fragment and parameters
urlparse(url) == ParsedFrom(SplitSchemeAt(url, find(url, {":"}, 1)))

NoKey == <<>>

\* lines 264-283: the string rebuilt from the parsed URL
Normalized(parsed) ==
    (IF lower(parsed.scheme) \notin {Http, Https} THEN Https ELSE lower(parsed.scheme))
    \o <<":", "/", "/">>
    \o lower(parsed.netloc)
    \o (IF parsed.path # <<"/">> THEN rstrip(parsed.path, "/") ELSE <<"/">>)
    \o (IF parsed.query # <<>> THEN <<"?">> \o parsed.query ELSE <<>>)

\* WebScraper.normalize_url_for_cache
normalize_url_for_cache(url) ==
    IF url = None THEN NoKey ELSE Normalized(urlparse(url))

\* URLCache.normalize_key, the normalizer being the one __init__ installs
normalize_key(url) == normalize_url_for_cache(url)

\* scrape_school_urls.normalize_url: url.rstrip('/').lower()
school_normalize_url(url) ==
    IF url = None THEN None ELSE lower(rstrip(url, "/"))

\* the worker threads; a thread's school id is its own name
Tasks == {"t1", "t2"}

\* the value None of a list variable
NoList == "None"

\* URLCache.get: the list object of the entry, or None
URLCache_get(c, url) ==
    IF normalize_key(url) \in DOMAIN c THEN c[normalize_key(url)].pages ELSE NoList

\* a set that replaces the page list of an existing entry
URLCache_set_replacing(c, url, pages, school_id) ==
    (normalize_key(url) :> [pages |-> pages,
                            schools |-> IF normalize_key(url) \in DOMAIN c
                                        THEN c[normalize_key(url)].schools \cup {school_id}
                                        ELSE {school_id}]) @@ c

\* the entry of key after the insertion of lines 90-95
Inserted(c, key, pages) ==
    IF key \notin DOMAIN c THEN (key :> [pages |-> pages, schools |-> {}]) @@ c ELSE c

\* URLCache.set
URLCache_set(c, url, pages, school_id) ==
    IF school_id # ""
    THEN [Inserted(c, normalize_key(url), pages) EXCEPT
              ![normalize_key(url)].schools = @ \cup {school_id}]
    ELSE Inserted(c, normalize_key(url), pages)

\* the pages a crawl collects at most
MaxCrawlPages == 1

IdleTask ==
    [pc |-> "idle", school_url |-> None, district_url |-> None, urls_to_scrape |-> <<>>,
     cached_pages |-> <<>>, all_pages |-> <<>>, cached |-> NoList, i |-> 0,
     cur |-> [url_type |-> "", url |-> None], n |-> 0, result |-> <<>>, seen |-> <<>>]

\* the process before any worker thread has taken a school
InitCache ==
    /\ cfg = [verify_ssl |-> TRUE, ssl_fallback |-> TRUE, ssl_retry_unverified |-> TRUE,
              cloudscraper_session |-> TRUE]
    /\ visited_urls = {} /\ scraped_pages = <<>>
    /\ current_delay = delay /\ consecutive_errors = 0 /\ consecutive_successes = 0
    /\ last = NoCall /\ ppc = "off"
    /\ world = NoWorld /\ site = NoSite /\ url_queue = <<>> /\ spc = "off"
    /\ fetched = <<>>
    /\ url_cache = <<>>
    /\ lists = [t \in Tasks |-> <<>>]
    /\ heap = <<>>
    /\ tasks = [t \in Tasks |-> IdleTask]
    /\ set_log = <<>>
    /\ NormOff /\ SearchOff /\ ReuseOff /\ RunOff

nonCacheVars == <<scraperVars, delayVars, pageVars, siteVars, normVars, searchVars, reuseVars, runVars>>

\* Python's truth value of the list get returned
Truthy(cached) == cached # NoList /\ lists[cached] # <<>>

\* the return of scrape_school_urls: the list returned and the tags its pages carry
Returned(tk, pages) ==
    [tk EXCEPT !.pc = "done", !.result = pages,
               !.seen = [k \in 1..Len(pages) |-> heap[pages[k]].source]]

\* the record of a set call: the list passed and what it held
Logged(url, pages, school_id) ==
    Append(set_log, [key |-> normalize_key(url), pages |-> pages, school_id |-> school_id,
                     content |-> lists[pages]])

\* main.process_school calls scrape_school_urls, lines 1249-1263
Call(t) ==
    /\ tasks[t].pc = "idle"
    /\ \E school_url \in SchoolUrlChoices, district_url \in DistrictUrlChoices :
          /\ school_url # None \/ district_url # None
          /\ tasks' = [tasks EXCEPT ![t] = [IdleTask EXCEPT !.pc = "school",
                                               !.school_url = school_url,
                                               !.district_url = district_url]]
    /\ lists' = [lists EXCEPT ![t] = <<>>]
    /\ UNCHANGED <<nonCacheVars, url_cache, heap, set_log>>

\* lines 1265-1275 and 1277-1287: the lookup of one of the two URLs
Lookup(t, url_type, url, wanted, next) ==
    IF ~wanted
    THEN tasks' = [tasks EXCEPT ![t].pc = next]
    ELSE IF Truthy(URLCache_get(url_cache, url))
    THEN tasks' = [tasks EXCEPT ![t].pc = url_type \o "_mark",
                                ![t].cached = URLCache_get(url_cache, url),
                                ![t].i = 1]
    ELSE tasks' = [tasks EXCEPT ![t].pc = next,
                                ![t].cached = URLCache_get(url_cache, url),
                                ![t].urls_to_scrape =
                                    Append(@, [url_type |-> url_type, url |-> url])]

\* lines 1265-1267, 1274-1275
SchoolGet(t) ==
    /\ tasks[t].pc = "school"
    /\ Lookup(t, "school", tasks[t].school_url, tasks[t].school_url # None, "district")
    /\ UNCHANGED <<nonCacheVars, url_cache, lists, heap, set_log>>

\* lines 1277-1279, 1286-1287
DistrictGet(t) ==
    /\ tasks[t].pc = "district"
    /\ Lookup(t, "district", tasks[t].district_url,
              /\ tasks[t].district_url # None
              /\ school_normalize_url(tasks[t].district_url)
                    # school_normalize_url(tasks[t].school_url),
              "early")
    /\ UNCHANGED <<nonCacheVars, url_cache, lists, heap, set_log>>

\* lines 1270-1272 and 1282-1284: one round of the loop over the cached list,
\* or its end and cached_pages.extend(cached)
MarkCached(t) ==
    /\ tasks[t].pc \in {"school_mark", "district_mark"}
    /\ IF tasks[t].i <= Len(lists[tasks[t].cached])
       THEN /\ heap' = [heap EXCEPT ![lists[tasks[t].cached][tasks[t].i]].source =
                           IF tasks[t].pc = "school_mark" THEN "school" ELSE "district"]
            /\ tasks' = [tasks EXCEPT ![t].i = @ + 1]
       ELSE /\ heap' = heap
            /\ tasks' = [tasks EXCEPT
                  ![t].cached_pages = @ \o lists[tasks[t].cached],
                  ![t].pc = IF tasks[t].pc = "school_mark" THEN "school_set"
                            ELSE "district_set"]
    /\ UNCHANGED <<nonCacheVars, url_cache, lists, set_log>>

\* lines 1273 and 1285: the cached list is set again
SetCached(t) ==
    /\ tasks[t].pc \in {"school_set", "district_set"}
    /\ url_cache' = URLCache_set(url_cache,
          IF tasks[t].pc = "school_set" THEN tasks[t].school_url ELSE tasks[t].district_url,
          tasks[t].cached, t)
    /\ set_log' = Logged(
          IF tasks[t].pc = "school_set" THEN tasks[t].school_url ELSE tasks[t].district_url,
          tasks[t].cached, t)
    /\ tasks' = [tasks EXCEPT ![t].pc = IF tasks[t].pc = "school_set" THEN "district"
                                        ELSE "early"]
    /\ UNCHANGED <<nonCacheVars, lists, heap>>

\* lines 1289-1292: everything came from the cache
EarlyReturn(t) ==
    /\ tasks[t].pc = "early"
    /\ tasks' = [tasks EXCEPT ![t] =
          IF tasks[t].urls_to_scrape = <<>> /\ tasks[t].cached_pages # <<>>
          THEN Returned(tasks[t], tasks[t].cached_pages)
          ELSE [tasks[t] EXCEPT !.pc = "scrape"]]
    /\ UNCHANGED <<nonCacheVars, url_cache, lists, heap, set_log>>

\* lines 1295-1298 and 1085-1093: the next URL to scrape, whose crawl clears
\* the scraper's list; or lines 1310-1317 when none is left
ScrapeNext(t) ==
    /\ tasks[t].pc = "scrape"
    /\ IF tasks[t].urls_to_scrape = <<>>
       THEN /\ tasks' = [tasks EXCEPT ![t] =
                   Returned(tasks[t], tasks[t].cached_pages \o tasks[t].all_pages)]
            /\ lists' = lists
       ELSE /\ tasks' = [tasks EXCEPT ![t].cur = Head(tasks[t].urls_to_scrape),
                                      ![t].urls_to_scrape = Tail(@),
                                      ![t].pc = "crawl"]
            /\ lists' = [lists EXCEPT ![t] = <<>>]
    /\ UNCHANGED <<nonCacheVars, url_cache, heap, set_log>>

\* lines 918-927 within the crawl: a page is appended to the scraper's list
CrawlPage(t) ==
    /\ tasks[t].pc = "crawl"
    /\ Len(lists[t]) < MaxCrawlPages
    /\ heap' = ([owner |-> t, n |-> tasks[t].n + 1] :>
                    [site |-> tasks[t].cur.url, source |-> "none"]) @@ heap
    /\ lists' = [lists EXCEPT ![t] = Append(@, [owner |-> t, n |-> tasks[t].n + 1])]
    /\ tasks' = [tasks EXCEPT ![t].n = @ + 1]
    /\ UNCHANGED <<nonCacheVars, url_cache, set_log>>

\* line 1207 and 1298: the crawl returns the scraper's list
CrawlReturn(t) ==
    /\ tasks[t].pc = "crawl"
    /\ tasks' = [tasks EXCEPT ![t].pc = "new_mark", ![t].i = 1]
    /\ UNCHANGED <<nonCacheVars, url_cache, lists, heap, set_log>>

\* lines 1300-1302: one round of the loop over the crawled list, or its end
\* and all_pages.extend(pages)
MarkNew(t) ==
    /\ tasks[t].pc = "new_mark"
    /\ IF tasks[t].i <= Len(lists[t])
       THEN /\ heap' = [heap EXCEPT ![lists[t][tasks[t].i]].source = tasks[t].cur.url_type]
            /\ tasks' = [tasks EXCEPT ![t].i = @ + 1]
       ELSE /\ heap' = heap
            /\ tasks' = [tasks EXCEPT ![t].all_pages = @ \o lists[t], ![t].pc = "new_set"]
    /\ UNCHANGED <<nonCacheVars, url_cache, lists, set_log>>

\* line 1304: the crawled list is cached
SetNew(t) ==
    /\ tasks[t].pc = "new_set"
    /\ url_cache' = URLCache_set(url_cache, tasks[t].cur.url, t, t)
    /\ set_log' = Logged(tasks[t].cur.url, t, t)
    /\ tasks' = [tasks EXCEPT ![t].pc = "scrape"]
    /\ UNCHANGED <<nonCacheVars, lists, heap>>

NextCache ==
    \E t \in Tasks :
        \/ Call(t) \/ SchoolGet(t) \/ DistrictGet(t) \/ MarkCached(t) \/ SetCached(t)
        \/ EarlyReturn(t) \/ ScrapeNext(t) \/ CrawlPage(t) \/ CrawlReturn(t)
        \/ MarkNew(t) \/ SetNew(t)

SpecCache == InitCache /\ [][NextCache]_vars

-----------------------------------------------------------------------------
(* WebScraper.normalize_url_for_cache as a function of the URL string.     *)

\* the ways a URL of the input is written: with a scheme in either case,
\* with another scheme, without scheme, an upper-case host, a path with or
\* without trailing slashes, a query
SchemeChoices ==
    {<<>>, <<"/", "/">>,
     Https \o <<":", "/", "/">>, Http \o <<":", "/", "/">>,
     <<"H", "T", "T", "P", "S", ":", "/", "/">>, <<"f", "t", "p", ":", "/", "/">>}

HostChoices == {<<"h">>, <<"H">>}

PathChoices == {<<>>, <<"/">>, <<"/", "a">>, <<"/", "a", "/">>, <<"/", "A">>, <<"/", "/">>}

QueryChoices == {<<>>, <<"?", "q">>}

\* a URL and the URL that differs from it by one more trailing slash of the path
InitNorm ==
    /\ \E s \in SchemeChoices, h \in HostChoices, p \in PathChoices, q \in QueryChoices :
          norm_in = [url |-> s \o h \o p \o q, slash |-> s \o h \o p \o <<"/">> \o q]
    /\ norm_out = <<>>
    /\ cfg = [verify_ssl |-> TRUE, ssl_fallback |-> TRUE, ssl_retry_unverified |-> TRUE,
              cloudscraper_session |-> TRUE]
    /\ visited_urls = {} /\ scraped_pages = <<>>
    /\ current_delay = delay /\ consecutive_errors = 0 /\ consecutive_successes = 0
    /\ last = NoCall /\ ppc = "off"
    /\ world = NoWorld /\ site = NoSite /\ url_queue = <<>> /\ spc = "off"
    /\ fetched = <<>>
    /\ CacheOff /\ SearchOff /\ ReuseOff /\ RunOff

nonNormVars == <<scraperVars, delayVars, pageVars, siteVars, cacheVars, searchVars, reuseVars,
                 runVars>>

\* normalize_url_for_cache is called on the two URLs
NormalizeCall ==
    /\ norm_out = <<>>
    /\ norm_out' = <<[key |-> normalize_url_for_cache(norm_in.url),
                      slash_key |-> normalize_url_for_cache(norm_in.slash)]>>
    /\ UNCHANGED <<nonNormVars, norm_in>>

\* normalize_url_for_cache is called on its own results
NormalizeAgain ==
    /\ Len(norm_out) = 1
    /\ norm_out' = Append(norm_out,
          [key |-> normalize_url_for_cache(norm_out[1].key),
           slash_key |-> normalize_url_for_cache(norm_out[1].slash_key)])
    /\ UNCHANGED <<nonNormVars, norm_in>>

NextNorm == NormalizeCall \/ NormalizeAgain

SpecNorm == InitNorm /\ [][NextNorm]_vars

-----------------------------------------------------------------------------
(* ScraperOrchestrator.process_school of src/main.py with the search of     *)
(* src/term_searcher.py, for schools processed by a pool of one worker.     *)

UrlD == Url(Https, <<"d">>, <<>>)

\* the sites of the input
SiteHosts == {<<"s">>, <<"t">>, <<"d">>}

\* the matches a page of a site holds: none, or the search term twice
MatchChoices == {0, 2}

\* dict.get(key, default)
dict_get(d, key, default) == IF key \in DOMAIN d THEN d[key] ELSE default

\* TermSearcher.search_text: total_matches of a page
total_matches(p) == page_matches[lower(urlparse(heap[p].site).netloc)]

\* TermSearcher.search_pages: the pages where a term was found
search_pages(pages) == SelectSeq(pages, LAMBDA p : total_matches(p) > 0)

\* the sum of total_matches over the results of search_pages
RECURSIVE total_occurrences(_)
total_occurrences(rs) ==
    IF rs = <<>> THEN 0 ELSE total_matches(Head(rs)) + total_occurrences(Tail(rs))

\* the results of search_pages whose page carries the tag source
FromSource(rs, source) == SelectSeq(rs, LAMBDA p : heap[p].source = source)

\* the terms of a list of results: the one search term, when there is a result
TermsOf(rs) == IF rs = <<>> THEN {} ELSE {"term"}

\* TermSearcher.aggregate_results (the context snippets are left out)
aggregate_results(rs) ==
    [terms_found |-> TermsOf(rs), page_urls |-> rs,
     total_occurrences |-> total_occurrences(rs), pages_with_terms |-> Len(rs),
     school_terms_found |-> TermsOf(FromSource(rs, "school")),
     school_page_urls |-> FromSource(rs, "school"),
     school_total_occurrences |-> total_occurrences(FromSource(rs, "school")),
     school_pages_with_terms |-> Len(FromSource(rs, "school")),
     district_terms_found |-> TermsOf(FromSource(rs, "district")),
     district_page_urls |-> FromSource(rs, "district"),
     district_total_occurrences |-> total_occurrences(FromSource(rs, "district")),
     district_pages_with_terms |-> Len(FromSource(rs, "district"))]

search_school_content(pages) == aggregate_results(search_pages(pages))

\* f"{school_url or ''}|{district_url or ''}"
urls_key(school_url, district_url) == school_url \o <<"|">> \o district_url

\* f"|{district_url or ''}" if district_url else None
district_key(district_url) ==
    IF district_url # None THEN <<"|">> \o district_url ELSE None

\* lines 195-210: the results built from the district-only entry
FromDistrictEntry(dr) ==
    [terms_found |-> dict_get(dr, "district_terms_found", {}),
     page_urls |-> dict_get(dr, "district_page_urls", <<>>),
     total_occurrences |-> dict_get(dr, "district_total_occurrences", 0),
     pages_with_terms |-> dict_get(dr, "district_pages_with_terms", 0),
     school_terms_found |-> {}, school_page_urls |-> <<>>,
     school_total_occurrences |-> 0, school_pages_with_terms |-> 0,
     district_terms_found |-> dict_get(dr, "district_terms_found", {}),
     district_page_urls |-> dict_get(dr, "district_page_urls", <<>>),
     district_total_occurrences |-> dict_get(dr, "district_total_occurrences", 0),
     district_pages_with_terms |-> dict_get(dr, "district_pages_with_terms", 0)]

\* lines 212-225: the school pages are searched and merged
MergeSchool(sr, school_pages, school_results) ==
    IF school_pages = <<>> THEN sr
    ELSE [sr EXCEPT
            !.school_terms_found = dict_get(school_results, "terms_found", {}),
            !.school_page_urls = dict_get(school_results, "page_urls", <<>>),
            !.school_total_occurrences = dict_get(school_results, "total_occurrences", 0),
            !.school_pages_with_terms = dict_get(school_results, "pages_with_terms", 0),
            !.terms_found = @ \cup dict_get(school_results, "terms_found", {}),
            !.page_urls = @ \o dict_get(school_results, "page_urls", <<>>),
            !.total_occurrences = @ + dict_get(school_results, "total_occurrences", 0),
            !.pages_with_terms = @ + dict_get(school_results, "pages_with_terms", 0)]

\* lines 237-243: the district-only entry
DistrictEntry(district_only_results) ==
    [district_terms_found |-> dict_get(district_only_results, "terms_found", {}),
     district_page_urls |-> dict_get(district_only_results, "page_urls", <<>>),
     district_total_occurrences |-> dict_get(district_only_results, "total_occurrences", 0),
     district_pages_with_terms |-> dict_get(district_only_results, "pages_with_terms", 0)]

\* lines 187-243: the search results of a school whose pages were scraped
SearchResults(cache, school_url, district_url, pages) ==
    IF urls_key(school_url, district_url) \in DOMAIN cache
    THEN cache[urls_key(school_url, district_url)]
    ELSE IF district_key(district_url) # None /\ district_key(district_url) \in DOMAIN cache
    THEN MergeSchool(FromDistrictEntry(cache[district_key(district_url)]),
                     SelectSeq(pages, LAMBDA p : heap[p].source = "school"),
                     search_school_content(
                         SelectSeq(pages, LAMBDA p : heap[p].source = "school")))
    ELSE search_school_content(pages)

\* lines 226-243: what the cache holds after a search of all pages
WithDistrictEntry(cache, district_url, district_pages) ==
    IF district_key(district_url) # None /\ district_url # None /\ district_pages # <<>>
    THEN (district_key(district_url) :> DistrictEntry(search_school_content(district_pages)))
             @@ cache
    ELSE cache

CacheAfterSearch(cache, school_url, district_url, pages) ==
    IF \/ urls_key(school_url, district_url) \in DOMAIN cache
       \/ district_key(district_url) # None /\ district_key(district_url) \in DOMAIN cache
    THEN cache
    ELSE WithDistrictEntry(
             (urls_key(school_url, district_url) :> search_school_content(pages)) @@ cache,
             district_url,
             SelectSeq(pages, LAMBDA p : heap[p].source = "district"))

\* create_results_dataframe: the columns of the record of a result
create_results_dataframe(result) ==
    [terms_found |-> dict_get(result.search_results, "terms_found", {}),
     total_occurrences |-> dict_get(result.search_results, "total_occurrences", 0),
     pages_with_terms |-> dict_get(result.search_results, "pages_with_terms", 0),
     school_terms_found |-> dict_get(result.search_results, "school_terms_found", {}),
     school_total_occurrences |->
         dict_get(result.search_results, "school_total_occurrences", 0),
     school_pages_with_terms |->
         dict_get(result.search_results, "school_pages_with_terms", 0),
     district_terms_found |-> dict_get(result.search_results, "district_terms_found", {}),
     district_total_occurrences |->
         dict_get(result.search_results, "district_total_occurrences", 0),
     district_pages_with_terms |->
         dict_get(result.search_results, "district_pages_with_terms", 0),
     scrape_status |-> result.scrape_status]

\* a task that has not been taken
NoResult ==
    [school_url |-> None, district_url |-> None, search_results |-> <<>>,
     scrape_status |-> "none", after |-> {}, ai_summaries |-> "empty", ai_calls |-> 0,
     raised |-> FALSE]

\* the orchestrator before the first school, over the pages the sites hold
InitReuse ==
    /\ cfg = [verify_ssl |-> TRUE, ssl_fallback |-> TRUE, ssl_retry_unverified |-> TRUE,
              cloudscraper_session |-> TRUE]
    /\ visited_urls = {} /\ scraped_pages = <<>>
    /\ current_delay = delay /\ consecutive_errors = 0 /\ consecutive_successes = 0
    /\ last = NoCall /\ ppc = "off"
    /\ world = NoWorld /\ site = NoSite /\ url_queue = <<>> /\ spc = "off"
    /\ fetched = <<>>
    /\ url_cache = <<>>
    /\ lists = [t \in Tasks |-> <<>>]
    /\ heap = <<>>
    /\ tasks = [t \in Tasks |-> IdleTask]
    /\ set_log = <<>>
    /\ NormOff /\ SearchOff /\ RunOff
    /\ search_results_cache = <<>>
    /\ results = [t \in Tasks |-> NoResult]
    /\ page_matches \in [SiteHosts -> MatchChoices]

\* process_school, lines 115-146: the worker takes a school when the task
\* before it has returned; without URLs the result is no_url, otherwise
\* scrape_school_urls is called; result.after names the tasks that returned before
ProcessSchool(t) ==
    /\ tasks[t].pc = "idle"
    /\ \A o \in Tasks \ {t} : tasks[o].pc \in {"idle", "finished"}
    /\ \E school_url \in {UrlS1, UrlT1, None}, district_url \in {UrlD, UrlT2, None} :
          /\ results' = [results EXCEPT ![t] =
                [school_url |-> school_url, district_url |-> district_url,
                 search_results |-> <<>>,
                 scrape_status |-> IF school_url = None /\ district_url = None
                                   THEN "no_url" ELSE "pending",
                 after |-> {o \in Tasks : tasks[o].pc = "finished"},
                 ai_summaries |-> "empty", ai_calls |-> 0, raised |-> FALSE]]
          /\ tasks' = [tasks EXCEPT ![t] =
                [IdleTask EXCEPT
                    !.pc = IF school_url = None /\ district_url = None
                           THEN "finished" ELSE "school",
                    !.school_url = school_url, !.district_url = district_url]]
    /\ lists' = [lists EXCEPT ![t] = <<>>]
    /\ UNCHANGED <<scraperVars, delayVars, pageVars, siteVars, normVars, searchVars, runVars, url_cache,
                   heap, set_log, search_results_cache, page_matches>>

\* process_school, lines 148-245, after scrape_school_urls returned: without
\* pages the result is scrape_failed; else the status is set to success, the
\* pages are searched and the AI step follows
Search(t) ==
    /\ tasks[t].pc = "done"
    /\ tasks' = [tasks EXCEPT ![t].pc = IF tasks[t].result = <<>> THEN "finished" ELSE "ai"]
    /\ IF tasks[t].result = <<>>
       THEN /\ results' = [results EXCEPT ![t].scrape_status = "scrape_failed",
                                          ![t].search_results = aggregate_results(<<>>)]
            /\ search_results_cache' = search_results_cache
       ELSE /\ results' = [results EXCEPT
                  ![t].scrape_status = "success",
                  ![t].search_results =
                      SearchResults(search_results_cache, tasks[t].school_url,
                                    tasks[t].district_url, tasks[t].result)]
            /\ search_results_cache' =
                  CacheAfterSearch(search_results_cache, tasks[t].school_url,
                                   tasks[t].district_url, tasks[t].result)
    /\ UNCHANGED <<scraperVars, delayVars, pageVars, siteVars, normVars, searchVars, runVars, url_cache,
                   lists, heap, set_log, page_matches>>

\* what a call of get_ai_contextualization meets: no API key, a response
\* without content, an exception of the API (caught in _make_request, lines
\* 118-139 of src/ai_context.py), a summary, or an exception outside that try
\* block, as of the hash of _get_school_cache_hash
AIOutcomes == {"no_key", "no_content", "api_error", "summary", "raises"}

\* get_ai_contextualization, unified mode: {'summary': ...} or {}
get_ai_contextualization(outcome) == IF outcome = "summary" THEN "summary" ELSE "empty"

\* a handler that leaves the status of the result alone
StatusAfterExceptionKept(status) == status

\* lines 276-279: the handler of process_school
StatusAfterException(status) == "error"

\* process_school, lines 247-281: without terms found the summarizer is not
\* called; else it is called once, and an exception it raises is caught by the
\* handler of process_school, which sets the status to error
Summarize(t) ==
    /\ tasks[t].pc = "ai"
    /\ tasks' = [tasks EXCEPT ![t].pc = "finished"]
    /\ IF dict_get(results[t].search_results, "terms_found", {}) = {}
       THEN results' = [results EXCEPT ![t].ai_summaries = "empty"]
       ELSE \E outcome \in AIOutcomes :
               results' = [results EXCEPT
                   ![t].ai_calls = @ + 1,
                   ![t].raised = outcome = "raises",
                   ![t].ai_summaries = IF outcome = "raises" THEN @
                                       ELSE get_ai_contextualization(outcome),
                   ![t].scrape_status = IF outcome = "raises" THEN StatusAfterException(@)
                                        ELSE @]
    /\ UNCHANGED <<scraperVars, delayVars, pageVars, siteVars, normVars, searchVars, runVars, url_cache,
                   lists, heap, set_log, page_matches, search_results_cache>>

NextReuse ==
    \E t \in Tasks :
        \/ ProcessSchool(t) \/ SchoolGet(t) \/ DistrictGet(t) \/ MarkCached(t)
        \/ SetCached(t) \/ EarlyReturn(t) \/ ScrapeNext(t) \/ CrawlPage(t)
        \/ CrawlReturn(t) \/ MarkNew(t) \/ SetNew(t) \/ Search(t) \/ Summarize(t)

SpecReuse == InitReuse /\ [][NextReuse]_vars

-----------------------------------------------------------------------------
(* ScraperOrchestrator.run and main of src/main.py: the batch over the      *)
(* results CSV and the checkpoint file, its worker pool, and the process    *)
(* that runs it.                                                            *)

\* the (name, state) identities of the rows of the input
Identities == {"A", "B"}

\* the rows of the input at most
MaxTasks == 2

\* the times the batch is started at most
MaxRuns == 2

\* the checkpoint file does not exist
NoFile == [exists |-> FALSE, processed_schools |-> {}, completed |-> FALSE]

nonRunVars == <<scraperVars, delayVars, pageVars, siteVars, cacheVars, normVars, searchVars, reuseVars,
                locks>>

\* load_progress (resume is on): the identities of the checkpoint
load_progress(file) == IF ~file.exists THEN {} ELSE file.processed_schools

\* a start that does not read the CSV
get_processed_schools_none(rows) == {}

\* get_processed_schools: the identities of the rows of the CSV
get_processed_schools(rows) == {rows[k].id : k \in DOMAIN rows}

\* a run that dispatches every row of the input
UnprocessedUnfiltered(input, processed_schools) == input

\* lines 316-327: the rows whose identity is not in processed_schools
Unprocessed(input, processed_schools) ==
    SelectSeq(input, LAMBDA id : id \notin processed_schools)

\* a batch before run() is called: the CSV and the checkpoint an earlier batch
\* left, the rows of the input, the size of the pool
InitRun ==
    /\ cfg = [verify_ssl |-> TRUE, ssl_fallback |-> TRUE, ssl_retry_unverified |-> TRUE,
              cloudscraper_session |-> TRUE]
    /\ visited_urls = {} /\ scraped_pages = <<>>
    /\ current_delay = delay /\ consecutive_errors = 0 /\ consecutive_successes = 0
    /\ last = NoCall /\ ppc = "off"
    /\ world = NoWorld /\ site = NoSite /\ url_queue = <<>> /\ spc = "off"
    /\ fetched = <<>>
    /\ CacheOff /\ NormOff /\ SearchOff /\ ReuseOff /\ locks = <<>>
    /\ csv \in {<<>>, <<[id |-> "A", task |-> 0, run |-> 0]>>,
                <<[id |-> "A", task |-> 0, run |-> 0], [id |-> "B", task |-> 0, run |-> 0]>>}
    /\ progress_file \in {NoFile, [exists |-> TRUE, processed_schools |-> {"B"},
                                    completed |-> FALSE]}
    /\ \E n \in 0..MaxTasks, workers \in {1, 2} :
          \E input \in [1..n -> Identities] :
              run = [pc |-> "new", n |-> 0, input |-> input, workers |-> workers,
                     processed_schools |-> {}, loaded |-> {}, schools_list |-> <<>>,
                     futures |-> <<>>, cur |-> 0, csv_failed |-> {},
                     save_failed |-> FALSE, save_calls |-> {}]

\* lines 288-363: the identities of the checkpoint and of the CSV are loaded;
\* with no school found for the state run() returns (lines 310-312); else the
\* input is filtered and every remaining row is submitted to the pool
Started(r, processed_schools) ==
    [r EXCEPT !.pc = IF r.input = <<>> THEN "returned" ELSE "loop", !.n = @ + 1,
              !.processed_schools = processed_schools, !.loaded = processed_schools,
              !.schools_list = Unprocessed(r.input, processed_schools),
              !.futures = [i \in DOMAIN Unprocessed(r.input, processed_schools) |-> "queued"],
              !.cur = 0, !.csv_failed = {}, !.save_failed = FALSE, !.save_calls = {}]

\* main calls run(), in the first process or in one started after the last died
Run ==
    /\ run.pc \in {"new", "dead"}
    /\ run.n < MaxRuns
    /\ run' = Started(run, load_progress(progress_file) \cup get_processed_schools(csv))
    /\ UNCHANGED <<nonRunVars, csv, progress_file>>

\* the main thread is inside the loop over the completed futures
InLoop == run.pc \in {"loop", "progress", "progress_exc"}

\* a worker takes the next submitted row and process_school checks its identity,
\* lines 120-124
StartTask(i) ==
    /\ InLoop
    /\ i \in DOMAIN run.futures /\ run.futures[i] = "queued"
    /\ \A j \in 1..(i - 1) : run.futures[j] # "queued"
    /\ Cardinality({j \in DOMAIN run.futures : run.futures[j] = "running"}) < run.workers
    /\ run' = [run EXCEPT !.futures[i] =
                  IF run.schools_list[i] \in run.processed_schools THEN "None" ELSE "running"]
    /\ UNCHANGED <<nonRunVars, csv, progress_file>>

\* process_school returns a result with one of the four statuses, or raises
FinishTask(i) ==
    /\ InLoop
    /\ i \in DOMAIN run.futures /\ run.futures[i] = "running"
    /\ \E outcome \in {"result", "raised"} : run' = [run EXCEPT !.futures[i] = outcome]
    /\ UNCHANGED <<nonRunVars, csv, progress_file>>

\* update_csv_with_school and append_to_csv: the row is added, or the write fails
append_to_csv(rows, csv_saved, id, task, n) ==
    IF csv_saved THEN Append(rows, [id |-> id, task |-> task, run |-> n]) ELSE rows

\* a loop that an append failure leaves
AfterAppendUncaught(r, i, csv_saved) ==
    [r EXCEPT !.pc = IF ~csv_saved THEN "halted"
                     ELSE IF r.futures[i] = "result" THEN "progress" ELSE "progress_exc",
              !.cur = i,
              !.csv_failed = IF csv_saved THEN @ ELSE @ \cup {i}]

\* lines 401-419 and 445-476: the failure of the append is caught
AfterAppend(r, i, csv_saved) ==
    [r EXCEPT !.pc = IF r.futures[i] = "result" THEN "progress" ELSE "progress_exc",
              !.cur = i,
              !.csv_failed = IF csv_saved THEN @ ELSE @ \cup {i}]

\* lines 367-419 and 442-476: the main thread takes a completed future; None is
\* passed over, a result or an error record is appended to the CSV
HandleCompleted(i) ==
    /\ run.pc = "loop"
    /\ i \in DOMAIN run.futures /\ run.futures[i] \in {"None", "result", "raised"}
    /\ IF run.futures[i] = "None"
       THEN /\ run' = [run EXCEPT !.futures[i] = "handled"]
            /\ csv' = csv
       ELSE \E csv_saved \in BOOLEAN :
                /\ csv' = append_to_csv(csv, csv_saved, run.schools_list[i], i, run.n)
                /\ run' = AfterAppend(run, i, csv_saved)
    /\ UNCHANGED <<nonRunVars, progress_file>>

\* save_progress: the file is rewritten, or the write fails and raises
save_progress(file, progress, saved) == IF saved THEN progress ELSE file

\* lines 421-440 and 477-486: the identity is added; a failing save is caught
\* after a result and leaves the loop after an exception of the task
AfterSave(r, saved) ==
    [r EXCEPT !.processed_schools = @ \cup {r.schools_list[r.cur]},
              !.save_calls = @ \cup r.processed_schools \cup {r.schools_list[r.cur]},
              !.save_failed = @ \/ ~saved,
              !.futures[r.cur] = "handled",
              !.pc = IF ~saved /\ r.pc = "progress_exc" THEN "halted" ELSE "loop",
              !.cur = 0]

UpdateProgress ==
    /\ run.pc \in {"progress", "progress_exc"}
    /\ \E saved \in BOOLEAN :
          /\ progress_file' = save_progress(progress_file,
                 [exists |-> TRUE,
                  processed_schools |-> run.processed_schools \cup {run.schools_list[run.cur]},
                  completed |-> FALSE], saved)
          /\ run' = AfterSave(run, saved)
    /\ UNCHANGED <<nonRunVars, csv>>

\* lines 497-513: after the loop, the final save, whose failure is caught
FinalSave ==
    /\ run.pc = "loop"
    /\ \A i \in DOMAIN run.futures : run.futures[i] = "handled"
    /\ \E saved \in BOOLEAN :
          /\ progress_file' = save_progress(progress_file,
                 [exists |-> TRUE, processed_schools |-> run.processed_schools,
                  completed |-> TRUE], saved)
          /\ run' = [run EXCEPT !.pc = "summary", !.save_failed = @ \/ ~saved,
                                !.save_calls = @ \cup run.processed_schools]
    /\ UNCHANGED <<nonRunVars, csv>>

\* lines 533-535: the throughput lines of the summary divide by total_schools
\* when the clock has advanced since start_time; the ZeroDivisionError of a
\* run with nothing to process leaves run() and main exits with "Fatal error"
SummaryOutcome(total_schools, elapsed_positive) ==
    IF elapsed_positive /\ total_schools = 0 THEN "fatal" ELSE "done"

\* lines 515-540: the end-of-run summary
FinalSummary ==
    /\ run.pc = "summary"
    /\ \E elapsed_positive \in BOOLEAN :
          run' = [run EXCEPT !.pc = SummaryOutcome(Len(run.schools_list), elapsed_positive)]
    /\ UNCHANGED <<nonRunVars, csv, progress_file>>

\* main, lines 635-640: a KeyboardInterrupt leaves run(); main logs and exits
Interrupt ==
    /\ InLoop
    /\ run' = [run EXCEPT !.pc = "interrupted"]
    /\ UNCHANGED <<nonRunVars, csv, progress_file>>

\* the process dies, between the append of a record and the checkpoint save
\* or between two completed futures
Crash ==
    /\ InLoop
    /\ run' = [run EXCEPT !.pc = "dead"]
    /\ UNCHANGED <<nonRunVars, csv, progress_file>>

NextRun ==
    \/ Run \/ UpdateProgress \/ FinalSave \/ FinalSummary \/ Interrupt \/ Crash
    \/ \E i \in 1..MaxTasks : StartTask(i) \/ FinishTask(i) \/ HandleCompleted(i)

SpecRun == InitRun /\ [][NextRun]_vars

-----------------------------------------------------------------------------
(* The critical sections of run(), src/main.py lines 367-513: the main      *)
(* thread takes the completed futures one by one, appends under csv_lock    *)
(* and saves the checkpoint under progress_lock, while the workers of the   *)
(* pool run process_school.                                                 *)

nonLockVars == <<scraperVars, delayVars, pageVars, siteVars, cacheVars, normVars, searchVars, reuseVars,
                 csv, progress_file, run>>

\* a `with lock:` that does not take the lock
acquire_unlocked(lock, thread) == lock

\* threading.Lock: `with lock:` entered by a thread
acquire(lock, thread) == thread

\* the batch has submitted its tasks: every future runs in a worker, no lock is
\* held
InitLock ==
    /\ cfg = [verify_ssl |-> TRUE, ssl_fallback |-> TRUE, ssl_retry_unverified |-> TRUE,
              cloudscraper_session |-> TRUE]
    /\ visited_urls = {} /\ scraped_pages = <<>>
    /\ current_delay = delay /\ consecutive_errors = 0 /\ consecutive_successes = 0
    /\ last = NoCall /\ ppc = "off"
    /\ world = NoWorld /\ site = NoSite /\ url_queue = <<>> /\ spc = "off"
    /\ fetched = <<>>
    /\ CacheOff /\ NormOff /\ SearchOff /\ ReuseOff
    /\ csv = <<>> /\ progress_file = <<>> /\ run = <<>>
    /\ \E n \in 1..MaxTasks :
          locks = [pc |-> "wait", csv_lock |-> "free", progress_lock |-> "free",
                   in_append |-> {}, in_save |-> {},
                   futures |-> [i \in 1..n |-> "running"], cur |-> 0,
                   raising |-> FALSE, appends |-> 0, saves |-> 0]

\* process_school returns in a worker thread, or raises; it takes neither lock
WorkerReturns(i) ==
    /\ locks.pc \notin {"done", "halted"}
    /\ i \in DOMAIN locks.futures /\ locks.futures[i] = "running"
    /\ \E outcome \in {"result", "raised"} :
          locks' = [locks EXCEPT !.futures[i] = outcome]
    /\ UNCHANGED nonLockVars

\* line 367: as_completed yields a future to the main thread
TakeCompleted(i) ==
    /\ locks.pc = "wait"
    /\ i \in DOMAIN locks.futures /\ locks.futures[i] \in {"result", "raised"}
    /\ locks' = [locks EXCEPT !.pc = "csv_acquire", !.cur = i]
    /\ UNCHANGED nonLockVars

\* lines 403 and 467: with self.csv_lock
AcquireCsv ==
    /\ locks.pc = "csv_acquire" /\ locks.csv_lock = "free"
    /\ locks' = [locks EXCEPT !.pc = "append", !.csv_lock = acquire(@, "main")]
    /\ UNCHANGED nonLockVars

\* lines 406-411 and 468-473: update_csv_with_school is entered
BeginAppend ==
    /\ locks.pc = "append"
    /\ locks' = [locks EXCEPT !.pc = "appending", !.in_append = @ \cup {"main"}]
    /\ UNCHANGED nonLockVars

\* update_csv_with_school returns or raises; the exception is caught at line 414
\* inside the with block, or leaves it and is caught at line 475
EndAppend ==
    /\ locks.pc = "appending"
    /\ \E csv_saved \in BOOLEAN :
          locks' = [locks EXCEPT !.pc = "csv_release", !.in_append = @ \ {"main"},
                                 !.appends = IF csv_saved THEN @ + 1 ELSE @]
    /\ UNCHANGED nonLockVars

\* the with block of csv_lock is left
ReleaseCsv ==
    /\ locks.pc = "csv_release"
    /\ locks' = [locks EXCEPT !.pc = "progress_acquire", !.csv_lock = "free"]
    /\ UNCHANGED nonLockVars

\* lines 422, 477 and 501: with self.progress_lock
AcquireProgress ==
    /\ locks.pc \in {"progress_acquire", "final_acquire"} /\ locks.progress_lock = "free"
    /\ locks' = [locks EXCEPT !.pc = IF @ = "final_acquire" THEN "final_save" ELSE "save",
                              !.progress_lock = acquire(@, "main")]
    /\ UNCHANGED nonLockVars

\* lines 431, 486 and 510: save_progress is entered
BeginSave ==
    /\ locks.pc \in {"save", "final_save"}
    /\ locks' = [locks EXCEPT !.pc = IF @ = "final_save" THEN "final_saving" ELSE "saving",
                              !.in_save = @ \cup {"main"}]
    /\ UNCHANGED nonLockVars

\* save_progress returns or raises; the exception is caught at lines 433 and
\* 512, and leaves the with block and the loop from line 486
EndSave ==
    /\ locks.pc \in {"saving", "final_saving"}
    /\ \E saved \in BOOLEAN :
          locks' = [locks EXCEPT
                       !.pc = IF @ = "final_saving" THEN "final_release" ELSE "progress_release",
                       !.in_save = @ \ {"main"},
                       !.saves = IF saved THEN @ + 1 ELSE @,
                       !.raising = ~saved /\ locks.pc = "saving"
                                      /\ locks.futures[locks.cur] = "raised"]
    /\ UNCHANGED nonLockVars

\* the with block of progress_lock is left, by the end of the block or by the
\* exception
ReleaseProgress ==
    /\ locks.pc \in {"progress_release", "final_release"}
    /\ locks' = [locks EXCEPT
                    !.pc = IF @ = "final_release" THEN "done"
                           ELSE IF locks.raising THEN "halted" ELSE "wait",
                    !.progress_lock = "free",
                    !.futures = IF locks.pc = "final_release" THEN @
                                ELSE [@ EXCEPT ![locks.cur] = "handled"],
                    !.cur = 0]
    /\ UNCHANGED nonLockVars

\* every future was yielded: the pool is left and the final save follows
LoopEnd ==
    /\ locks.pc = "wait"
    /\ \A i \in DOMAIN locks.futures : locks.futures[i] = "handled"
    /\ locks' = [locks EXCEPT !.pc = "final_acquire"]
    /\ UNCHANGED nonLockVars

NextLock ==
    \/ AcquireCsv \/ BeginAppend \/ EndAppend \/ ReleaseCsv
    \/ AcquireProgress \/ BeginSave \/ EndSave \/ ReleaseProgress \/ LoopEnd
    \/ \E i \in 1..MaxTasks : WorkerReturns(i) \/ TakeCompleted(i)

SpecLock == InitLock /\ [][NextLock]_vars

-----------------------------------------------------------------------------
(* TermSearcher of src/term_searcher.py: find_term_occurrences and          *)
(* search_text over one page text.                                          *)

nonSearchVars == <<scraperVars, delayVars, pageVars, siteVars, cacheVars, normVars, reuseVars,
                   runVars>>

\* the longest page text
MaxText == 4

\* the characters of a page text
TextChars == {"a", "A", "t", " "}

\* the terms a searcher may be configured with
TermAA == <<"a", "a">>
TermAT == <<"a", "t">>

\* the page texts of up to n characters
RECURSIVE Texts(_)
Texts(n) ==
    IF n = 0 THEN {<<>>}
    ELSE Texts(n - 1) \cup {Append(text, ch) : text \in Texts(n - 1), ch \in TextChars}

\* a pattern compiled without re.IGNORECASE
pattern_match_cased(text, term, pos) ==
    /\ pos + Len(term) - 1 <= Len(text)
    /\ SubSeq(text, pos, pos + Len(term) - 1) = term

\* re.compile(re.escape(term), re.IGNORECASE) matches at index pos (from 1)
pattern_match(text, term, pos) ==
    /\ pos + Len(term) - 1 <= Len(text)
    /\ lower(SubSeq(text, pos, pos + Len(term) - 1)) = lower(term)

\* str.strip of blanks
RECURSIVE strip(_)
strip(str) ==
    IF str # <<>> /\ str[1] = " " THEN strip(Tail(str))
    ELSE rstrip(str, " ")

\* ' '.join(str.split()) of a stripped string: runs of blanks become one blank
RECURSIVE join_split(_)
join_split(str) ==
    IF Len(str) < 2 THEN str
    ELSE IF str[1] = " " /\ str[2] = " " THEN join_split(Tail(str))
    ELSE <<str[1]>> \o join_split(Tail(str))

Max(a, b) == IF a >= b THEN a ELSE b

Min(a, b) == IF a <= b THEN a ELSE b

\* lines 49-66: the record of the match that begins at index pos; start, end,
\* context_start and context_end count from 0 as in the code
Occurrence(text, term, pos, context_length) ==
    [term |-> term, start |-> pos - 1, end |-> pos - 1 + Len(term),
     context_start |-> Max(0, pos - 1 - context_length \div 2),
     context_end |-> Min(Len(text), pos - 1 + Len(term) + context_length \div 2),
     context |-> join_split(strip(SubSeq(text,
                    Max(0, pos - 1 - context_length \div 2) + 1,
                    Min(Len(text), pos - 1 + Len(term) + context_length \div 2)))),
     matched_text |-> SubSeq(text, pos, pos + Len(term) - 1)]

\* pattern.finditer from index pos on: the matches from left to right, each
\* search going on behind the end of the match before
RECURSIVE finditer(_, _, _, _)
finditer(text, term, pos, context_length) ==
    IF pos + Len(term) - 1 > Len(text) THEN <<>>
    ELSE IF pattern_match(text, term, pos)
         THEN <<Occurrence(text, term, pos, context_length)>>
                  \o finditer(text, term, pos + Len(term), context_length)
         ELSE finditer(text, term, pos + 1, context_length)

find_term_occurrences(text, term, context_length) == finditer(text, term, 1, context_length)

\* search_text, lines 89-96: the loop over the terms from the k-th on
RECURSIVE occurrences_from(_, _, _, _)
occurrences_from(text, search_terms, k, context_length) ==
    IF k > Len(search_terms) THEN <<>>
    ELSE find_term_occurrences(text, search_terms[k], context_length)
             \o occurrences_from(text, search_terms, k + 1, context_length)

\* search_text; terms_found is list(found_terms), a list in the order of a set
search_text(text, page_url, search_terms, context_length) ==
    [url |-> page_url,
     terms_found |-> {search_terms[k] : k \in
                         {j \in DOMAIN search_terms :
                             find_term_occurrences(text, search_terms[j], context_length) # <<>>}},
     occurrences |-> occurrences_from(text, search_terms, 1, context_length),
     total_matches |-> Len(occurrences_from(text, search_terms, 1, context_length))]

\* a searcher and a page text; no call was made
InitSearch ==
    /\ cfg = [verify_ssl |-> TRUE, ssl_fallback |-> TRUE, ssl_retry_unverified |-> TRUE,
              cloudscraper_session |-> TRUE]
    /\ visited_urls = {} /\ scraped_pages = <<>>
    /\ current_delay = delay /\ consecutive_errors = 0 /\ consecutive_successes = 0
    /\ last = NoCall /\ ppc = "off"
    /\ world = NoWorld /\ site = NoSite /\ url_queue = <<>> /\ spc = "off"
    /\ fetched = <<>>
    /\ CacheOff /\ NormOff /\ ReuseOff /\ RunOff
    /\ \E text \in Texts(MaxText), context_length \in {2, 5},
          search_terms \in {<<TermAA>>, <<TermAT>>, <<TermAA, TermAT>>} :
          search_in = [text |-> text, search_terms |-> search_terms,
                       context_length |-> context_length]
    /\ search_out = <<>>

\* search_text is called with the page text
SearchText ==
    /\ search_out = <<>>
    /\ search_out' = [call |-> "search_text",
                      result |-> search_text(search_in.text, UrlS1, search_in.search_terms,
                                             search_in.context_length)]
    /\ UNCHANGED <<nonSearchVars, search_in>>

\* the code point of a character
ord(ch) == CASE ch = " " -> 32 [] ch = "A" -> 65 [] ch = "a" -> 97 [] OTHER -> 116

\* str < str: the order sorted() uses
RECURSIVE lt(_, _)
lt(s1, s2) ==
    IF s2 = <<>> THEN FALSE
    ELSE IF s1 = <<>> THEN TRUE
    ELSE IF s1[1] # s2[1] THEN ord(s1[1]) < ord(s2[1])
    ELSE lt(Tail(s1), Tail(s2))

\* the least string of a set
least(S) == CHOOSE x \in S : \A y \in S \ {x} : lt(x, y)

\* sorted(list(S)) of a set of strings
RECURSIVE sorted(_)
sorted(S) == IF S = {} THEN <<>> ELSE <<least(S)>> \o sorted(S \ {least(S)})

\* list(S): the elements of a set in one of the orders its iteration may have
list_of_set(S) == {l \in [1..Cardinality(S) -> S] : \A x \in S : \E k \in DOMAIN l : l[k] = x}

\* the set of the elements of a list
set_of(l) == {l[k] : k \in DOMAIN l}

\* aggregate_results, lines 147-192 of src/term_searcher.py: the terms of the
\* pages of each source, as sorted lists
aggregate_terms(school, district) ==
    [terms_found |-> sorted(school \cup district),
     school_terms_found |-> sorted(school),
     district_terms_found |-> sorted(district)]

\* main.py lines 194-225: the terms of a cached district entry, merged with
\* those of a search of the school pages when there are school pages; merged
\* is the list that list(set(...)) of line 221 builds
district_reuse_terms(district_results, has_school_pages, school_results, merged) ==
    [terms_found |-> IF has_school_pages THEN merged
                     ELSE district_results.district_terms_found,
     school_terms_found |-> IF has_school_pages THEN school_results.terms_found ELSE <<>>,
     district_terms_found |-> district_results.district_terms_found]

\* process_school, lines 186-245: the search results of a school whose school
\* pages and district pages hold the given terms, on one of the three paths:
\* a fresh search, the entry cached under the pair of URLs, or the cached
\* district entry merged with a search of the school pages
SearchResultsOfPath ==
    /\ search_out = <<>>
    /\ \E school \in SUBSET set_of(search_in.search_terms),
          district \in SUBSET set_of(search_in.search_terms),
          path \in {"fresh", "pair", "district"}, has_school_pages \in BOOLEAN :
          /\ ~has_school_pages => school = {}
          /\ IF path = "district"
             THEN \E merged \in list_of_set(
                                   set_of(aggregate_terms({}, district).district_terms_found
                                          \o aggregate_terms(school, {}).terms_found)) :
                     search_out' =
                         [call |-> path,
                          result |-> district_reuse_terms(aggregate_terms({}, district),
                                         has_school_pages, aggregate_terms(school, {}), merged)]
             ELSE search_out' = [call |-> path, result |-> aggregate_terms(school, district)]
    /\ UNCHANGED <<nonSearchVars, search_in>>

NextSearch == SearchText \/ SearchResultsOfPath

SpecSearch == InitSearch /\ [][NextSearch]_vars

-----------------------------------------------------------------------------
(* The adaptive delay of scrape_site, src/web_scraper.py lines 1136-1149    *)
(* and 1193-1200, over any sequence of fetches that succeed or fail.        *)

\* the fetches of a crawl at most
MaxFetches == 9

\* the delay a scraper starts with, in milliseconds: config's delay, or the
\* --delay of the command line, which main.py lines 342-343 write to the
\* configuration unchecked
StartDelays == {100, min_delay, 1000, delay, 5000}

\* WebScraper.__init__, lines 209-214
InitDelay ==
    /\ cfg = [verify_ssl |-> TRUE, ssl_fallback |-> TRUE, ssl_retry_unverified |-> TRUE,
              cloudscraper_session |-> TRUE]
    /\ visited_urls = {} /\ scraped_pages = <<>>
    /\ current_delay \in StartDelays
    /\ consecutive_errors = 0 /\ consecutive_successes = 0
    /\ last = NoCall /\ ppc = "off"
    /\ world = NoWorld /\ site = NoSite /\ url_queue = <<>> /\ spc = "off"
    /\ fetched = <<>>
    /\ CacheOff /\ NormOff /\ SearchOff /\ ReuseOff /\ RunOff

\* lines 1136-1146: scrape_page returned a page
FetchSucceeded ==
    /\ Len(fetched) < MaxFetches
    /\ current_delay' = DelayAfterSuccess(current_delay, consecutive_successes + 1).d
    /\ consecutive_successes' = DelayAfterSuccess(current_delay, consecutive_successes + 1).s
    /\ consecutive_errors' = 0
    /\ fetched' = Append(fetched,
           [ok |-> TRUE, before |-> current_delay,
            after |-> DelayAfterSuccess(current_delay, consecutive_successes + 1).d])
    /\ UNCHANGED <<scraperVars, pageVars, world, site, url_queue, spc, nonCrawlVars>>

\* lines 1193-1200: scrape_page returned None
FetchFailed ==
    /\ Len(fetched) < MaxFetches
    /\ current_delay' = DelayAfterError(current_delay, consecutive_errors + 1)
    /\ consecutive_errors' = consecutive_errors + 1
    /\ consecutive_successes' = 0
    /\ fetched' = Append(fetched,
           [ok |-> FALSE, before |-> current_delay,
            after |-> DelayAfterError(current_delay, consecutive_errors + 1)])
    /\ UNCHANGED <<scraperVars, pageVars, world, site, url_queue, spc, nonCrawlVars>>

NextDelay == FetchSucceeded \/ FetchFailed

SpecDelay == InitDelay /\ [][NextDelay]_vars

-----------------------------------------------------------------------------
(* Properties of one scrape_page call.                                     *)

\* C2: in scrape_page every hop of a redirect chain is compared with the job
\* domain, and the fetch returns no page as soon as one hop, an intermediate one
\* included, has left the domain.
C2_AnyExternalHopAborts ==
    (last.called /\ last.base_domain # NoDomain
        /\ netloc(last.url) = last.base_domain
        /\ \E u \in HopsOf(last.res) : netloc(u) # last.base_domain)
    => last.res.page = NoPage

\* C3: when bot protection was detected on a response not obtained with the
\* browser-mimicking client and the retry failed or the client is unavailable,
\* the returned page's text and links come from the body of the original response.
C3_FailedRetryKeepsOriginal ==
    (last.called /\ last.res.bot /\ last.res.retry \in {"failed", "unavailable"}
        /\ last.res.page # NoPage)
    => /\ last.res.page.text.doc = last.res.orig.body.doc
       /\ last.res.page.text.variant = last.res.orig.body.variant
       /\ last.res.page.status_code = last.res.orig.status_code
       /\ (last.res.orig.body.variant = "challenge" => last.res.page.links = {})

-----------------------------------------------------------------------------
(* Properties of scrape_page within the job domain and of one crawl.       *)

\* C1: a scrape_page call with a job domain returns no page or a page whose
\* url has the job domain as host, whichever client and TLS fallback produced
\* it; so every page a crawl has collected has the host of the seed.
C1_PagesStayInDomain ==
    /\ (last.called /\ last.base_domain # NoDomain /\ last.res.page # NoPage)
          => netloc(last.res.page.url) = last.base_domain
    /\ spc \in {"loop", "done"}
          => \A i \in 1..Len(scraped_pages) :
                netloc(scraped_pages[i].url) = netloc(site.base_url)

\* a call that was redirected inside the domain and whose page came from the
\* last-resort unverified attempt
C1_Witness ==
    /\ last.called /\ last.base_domain = "d" /\ last.res.page # NoPage
    /\ last.res.layer = "last_resort" /\ last.res.page.url # last.url

\* C4: within one crawl no URL is requested by more than one fetch, failed
\* URLs and redirect targets included.
C4_NoUrlRequestedTwice ==
    \A i, j \in 1..Len(fetched) :
        i # j => fetched[i].hops \cap fetched[j].hops = {}

\* C5: during a crawl the list of collected pages only grows, by appending,
\* and it never holds more than max_pages pages.
C5_PagesGrowUpToMaxPages ==
    [][spc = "loop" =>
          /\ Len(scraped_pages') >= Len(scraped_pages)
          /\ SubSeq(scraped_pages', 1, Len(scraped_pages)) = scraped_pages
          /\ Len(scraped_pages') <= site.max_pages]_vars

\* a crawl that the bound on the pages has stopped, with entries left in the queue
C5_Witness ==
    /\ spc = "done" /\ url_queue # <<>>
    /\ Len(scraped_pages) = site.max_pages /\ Len(fetched) >= 2

\* C6: a link of the job domain that matches a skip pattern, found on a page
\* whose links are followed, is appended to the queue.
C6_SkipLinksEnqueued ==
    \A i \in 1..Len(fetched) :
        fetched[i].followed =>
            \A link \in fetched[i].links :
                (should_skip_url(link) /\ netloc(link) = site.base_domain
                    /\ link \notin fetched[i].visited)
                => link \in fetched[i].enqueued

\* C7: no collected page has a url matching a skip pattern, except the seed,
\* also when the URL requested did not match and was redirected.
C7_NoSkipPageCollected ==
    spc \in {"loop", "done"}
        => \A i \in 1..Len(scraped_pages) :
              should_skip_url(scraped_pages[i].url)
                  => scraped_pages[i].url = site.base_url

-----------------------------------------------------------------------------
(* Properties of the URL cache shared by the worker threads.               *)

\* C8: whatever the interleaving of the set calls on URLs with one canonical
\* key, the entry holds the list passed by the first set that took the lock,
\* every set has added its school id to the entry, and a get returns that list.
C8_SetIdempotentPerKey ==
    /\ DOMAIN url_cache = {set_log[i].key : i \in 1..Len(set_log)}
    /\ \A key \in DOMAIN url_cache :
          LET calls == {i \in 1..Len(set_log) : set_log[i].key = key}
              first == CHOOSE i \in calls : \A j \in calls : i <= j
          IN  /\ url_cache[key].pages = set_log[first].pages
              /\ url_cache[key].schools = {set_log[i].school_id : i \in calls}
    /\ \A t \in Tasks :
          /\ tasks[t].pc \in {"school_mark", "school_set"}
                => tasks[t].cached = url_cache[normalize_key(tasks[t].school_url)].pages
          /\ tasks[t].pc \in {"district_mark", "district_set"}
                => tasks[t].cached = url_cache[normalize_key(tasks[t].district_url)].pages

\* two threads have crawled URLs with one canonical key and both have set
\* their own list
C8_Witness ==
    \E i, j \in 1..Len(set_log) :
        /\ i < j
        /\ set_log[i].key = set_log[j].key
        /\ set_log[i].pages # set_log[j].pages
        /\ set_log[i].school_id # set_log[j].school_id
        /\ url_cache[set_log[i].key].pages = set_log[i].pages

\* C9: the entry of a URL holds, for the rest of the process, exactly the
\* pages that were crawled for it and passed to the first set.
C9_EntryKeepsCrawledPages ==
    \A key \in DOMAIN url_cache :
        LET calls == {i \in 1..Len(set_log) : set_log[i].key = key}
            first == CHOOSE i \in calls : \A j \in calls : i <= j
        IN  /\ lists[url_cache[key].pages] = set_log[first].content
            /\ \A k \in 1..Len(lists[url_cache[key].pages]) :
                  normalize_key(heap[lists[url_cache[key].pages][k]].site) = key

\* C10: the source tag of a page that a thread has received from
\* scrape_school_urls stays the tag it had when the call returned.
C10_ReceivedTagsKept ==
    \A t \in Tasks :
        tasks[t].pc = "done"
            => \A k \in 1..Len(tasks[t].result) :
                  heap[tasks[t].result[k]].source = tasks[t].seen[k]

-----------------------------------------------------------------------------
(* Properties of the cache key.                                            *)

\* C11: normalize_url_for_cache applied to its own result returns that
\* result, and the result has a lower-case host and the scheme http or https.
C11_NormalizeIdempotent ==
    Len(norm_out) = 2
        => /\ norm_out[2].key = norm_out[1].key
           /\ urlparse(norm_out[1].key).netloc = lower(urlparse(norm_out[1].key).netloc)
           /\ urlparse(norm_out[1].key).scheme \in {Http, Https}

\* C12: two URLs that differ only by a trailing slash, the bare host and the
\* host followed by a slash included, have the same cache key.
C12_TrailingSlashSameKey ==
    Len(norm_out) >= 1 => norm_out[1].key = norm_out[1].slash_key

-----------------------------------------------------------------------------
(* Claims about the reuse of search results in process_school.              *)

\* C13: when two tasks with the same district URL and different school URLs
\* are processed one after the other, the second task does not crawl the
\* district URL, crawls its own school URL, and its combined totals are the
\* district totals of the first task's record plus the totals of its own
\* school pages.
C13_DistrictReusedSchoolFresh ==
    \A t1 \in Tasks, t2 \in Tasks :
        (/\ tasks[t2].pc = "finished" /\ t1 \in results[t2].after
         /\ results[t2].district_url # None
         /\ results[t1].district_url = results[t2].district_url
         /\ results[t1].school_url # results[t2].school_url)
        => /\ \A i \in DOMAIN set_log :
                 ~(/\ set_log[i].school_id = t2 /\ set_log[i].pages = t2
                   /\ set_log[i].key = normalize_key(results[t2].district_url))
           /\ results[t2].school_url # None
                 => \E i \in DOMAIN set_log :
                       /\ set_log[i].school_id = t2 /\ set_log[i].pages = t2
                       /\ set_log[i].key = normalize_key(results[t2].school_url)
           /\ create_results_dataframe(results[t2]).total_occurrences
                 = create_results_dataframe(results[t1]).district_total_occurrences
                   + total_occurrences(search_pages(SelectSeq(tasks[t2].result,
                         LAMBDA p : heap[p].site = results[t2].school_url)))
           /\ create_results_dataframe(results[t2]).pages_with_terms
                 = create_results_dataframe(results[t1]).district_pages_with_terms
                   + Len(search_pages(SelectSeq(tasks[t2].result,
                         LAMBDA p : heap[p].site = results[t2].school_url)))

\* C14: when two tasks with the same (school URL, district URL) pair are
\* processed one after the other, the record of the second carries the same
\* combined terms, total occurrences, pages with terms and the same school
\* and district partitions as the record of the first.
C14_SamePairSameRecord ==
    \A t1 \in Tasks, t2 \in Tasks :
        (/\ tasks[t2].pc = "finished" /\ t1 \in results[t2].after
         /\ results[t1].school_url = results[t2].school_url
         /\ results[t1].district_url = results[t2].district_url)
        => [create_results_dataframe(results[t2]) EXCEPT !.scrape_status = ""]
             = [create_results_dataframe(results[t1]) EXCEPT !.scrape_status = ""]

-----------------------------------------------------------------------------
(* Claims about the batch: resume, records, checkpoint, interruption.       *)

C16_EveryTaskOneRecord ==
    run.pc = "done" =>
        \A i \in DOMAIN run.schools_list :
            Cardinality({k \in DOMAIN csv : csv[k].run = run.n /\ csv[k].task = i}) = 1

\* C17: the CSV never holds two records of the same identity.
C17_NoTwoRecordsOfAnIdentity ==
    \A k \in DOMAIN csv, l \in DOMAIN csv : k # l => csv[k].id # csv[l].id

C19_SaveFailureNeverHalts ==
    run.save_failed => run.pc # "halted"

\* C20: when a KeyboardInterrupt has ended run(), the checkpoint was saved
\* once more: the file holds the identities of processed_schools.
C20_InterruptSavesCheckpoint ==
    (run.pc = "interrupted" /\ ~run.save_failed)
        => /\ progress_file.exists
           /\ progress_file.processed_schools = run.processed_schools

\* C21, as stated: in every state of a run the identities of the checkpoint
\* file are a superset of the identities of the records of the CSV.
C21_CheckpointSupersetOfRecords ==
    run.n > 0 => {csv[k].id : k \in DOMAIN csv} \subseteq load_progress(progress_file)

\* C21, amended: between two completed futures and at the end of the batch,
\* processed_schools, the set every save writes, holds the identity of every
\* record of the CSV; the checkpoint file holds them once a save of the run
\* was made and none failed.
C21_ProcessedSupersetOfRecords ==
    run.pc \in {"loop", "done", "halted"} =>
        /\ {csv[k].id : k \in DOMAIN csv} \subseteq run.processed_schools
        /\ (run.save_calls # {} /\ ~run.save_failed)
              => {csv[k].id : k \in DOMAIN csv} \subseteq progress_file.processed_schools

\* a run over a CSV with a record appended a record of its own and saved
C21_Witness ==
    /\ run.pc = "loop" /\ run.save_calls # {} /\ ~run.save_failed
    /\ \E k \in DOMAIN csv : csv[k].run = 0
    /\ \E k \in DOMAIN csv : csv[k].run = run.n

\* C22: whenever run() returns normally, with no school found for the state and
\* with every school already processed too, the checkpoint file holds a
\* snapshot with completed = TRUE that lists every processed identity, unless
\* a save of the run failed.
C22_NormalReturnLeavesCompleted ==
    (run.pc \in {"done", "returned"} /\ ~run.save_failed) =>
        /\ progress_file.exists /\ progress_file.completed
        /\ progress_file.processed_schools = run.processed_schools

\* C23: no two appends to the CSV overlap and no two writes of the checkpoint
\* overlap: a thread is inside update_csv_with_school only while it holds
\* csv_lock and inside save_progress only while it holds progress_lock.
C23_WritesUnderTheirLock ==
    /\ Cardinality(locks.in_append) <= 1 /\ Cardinality(locks.in_save) <= 1
    /\ \A thread \in locks.in_append : locks.csv_lock = thread
    /\ \A thread \in locks.in_save : locks.progress_lock = thread

\* the main thread is inside the save of a record it appended while a worker
\* still runs process_school
C23_Witness ==
    /\ locks.pc = "saving" /\ locks.in_save = {"main"} /\ locks.appends > 0
    /\ \E i \in DOMAIN locks.futures : locks.futures[i] = "running"

\* C24: the summarizer is called at most once per task and only when the
\* search found a term; after its call, whether it had no key, returned
\* nothing or raised, the finished task has the status success and its
\* search results.
C24_SummarizerFailureKeepsSuccess ==
    \A t \in Tasks :
        /\ results[t].ai_calls <= 1
        /\ results[t].ai_calls = 1 =>
               /\ dict_get(results[t].search_results, "terms_found", {}) # {}
               /\ tasks[t].pc = "finished"
               /\ results[t].scrape_status = "success"

C26_Positions(text, term) ==
    {p \in 1..Len(text) :
        /\ p + Len(term) - 1 <= Len(text)
        /\ \A k \in 1..Len(term) : LowerChar(text[p + k - 1]) = LowerChar(term[k])}

\* the indices (from 1) of the occurrences search_text returned for a term
C26_Found(out, term) ==
    {out.occurrences[k].start + 1 :
        k \in {j \in DOMAIN out.occurrences : out.occurrences[j].term = term}}

\* the occurrences search_text returned for a term
C26_Count(out, term) ==
    Cardinality({j \in DOMAIN out.occurrences : out.occurrences[j].term = term})

\* the context of every occurrence is the text of a window that reaches at
\* most context_length / 2 characters to each side of the match and is cut at
\* the bounds of the text
C26_ContextsClamped(in, out) ==
    \A j \in DOMAIN out.occurrences :
        /\ 0 <= out.occurrences[j].context_start
        /\ out.occurrences[j].context_start <= out.occurrences[j].start
        /\ out.occurrences[j].start - out.occurrences[j].context_start
               <= in.context_length \div 2
        /\ out.occurrences[j].end <= out.occurrences[j].context_end
        /\ out.occurrences[j].context_end <= Len(in.text)
        /\ out.occurrences[j].context_end - out.occurrences[j].end
               <= in.context_length \div 2
        /\ out.occurrences[j].context =
               join_split(strip(SubSeq(in.text, out.occurrences[j].context_start + 1,
                                       out.occurrences[j].context_end)))

\* C26, as stated: search_text returns one occurrence for every index at which
\* a configured term occurs in the text in any mix of cases; without any,
\* terms_found is empty and total_matches 0; total_matches is the sum over the
\* terms; the contexts are clamped windows.
C26_EveryOccurrenceFound ==
    (search_out # <<>> /\ search_out.call = "search_text") =>
        /\ \A k \in DOMAIN search_in.search_terms :
               C26_Count(search_out.result, search_in.search_terms[k])
                   = Cardinality(C26_Positions(search_in.text, search_in.search_terms[k]))
        /\ search_out.result.total_matches = Len(search_out.result.occurrences)
        /\ C26_ContextsClamped(search_in, search_out.result)

\* C26, amended: for every configured term search_text returns the occurrences
\* met from left to right, each search going on behind the match before: the
\* matches of a term are occurrences in any mix of cases, do not overlap one
\* another, and every occurrence that is not returned overlaps a returned one
\* that begins before it, so k occurrences that do not overlap yield k
\* matches; terms_found holds the terms that occur, total_matches is the sum
\* over the terms, and the contexts are clamped windows.
C26_LeftmostOccurrencesFound ==
    (search_out # <<>> /\ search_out.call = "search_text") =>
        /\ \A k \in DOMAIN search_in.search_terms :
               /\ C26_Found(search_out.result, search_in.search_terms[k])
                      \subseteq C26_Positions(search_in.text, search_in.search_terms[k])
               /\ C26_Count(search_out.result, search_in.search_terms[k])
                      = Cardinality(C26_Found(search_out.result, search_in.search_terms[k]))
               /\ \A p, q \in C26_Found(search_out.result, search_in.search_terms[k]) :
                      p < q => p + Len(search_in.search_terms[k]) <= q
               /\ \A p \in C26_Positions(search_in.text, search_in.search_terms[k])
                             \ C26_Found(search_out.result, search_in.search_terms[k]) :
                      \E q \in C26_Found(search_out.result, search_in.search_terms[k]) :
                          q < p /\ p < q + Len(search_in.search_terms[k])
        /\ search_out.result.terms_found =
               {search_in.search_terms[k] : k \in
                   {j \in DOMAIN search_in.search_terms :
                       C26_Positions(search_in.text, search_in.search_terms[j]) # {}}}
        /\ search_out.result.total_matches = Len(search_out.result.occurrences)
        /\ C26_ContextsClamped(search_in, search_out.result)

\* a text that holds a term twice in different cases, with a context cut at
\* the start of the text and one cut at its end
C26_Witness ==
    /\ search_out # <<>> /\ search_out.call = "search_text"
    /\ \E i, j \in DOMAIN search_out.result.occurrences :
           /\ i # j /\ search_out.result.occurrences[i].term = search_out.result.occurrences[j].term
           /\ search_out.result.occurrences[i].matched_text # search_out.result.occurrences[j].matched_text
           /\ search_out.result.occurrences[i].start < search_in.context_length \div 2
           /\ search_out.result.occurrences[j].end + search_in.context_length \div 2
                  > Len(search_in.text)

\* C27: on each of the three paths of process_school the combined, the school
\* and the district terms_found lists of the search results are sorted and
\* hold no term twice.
C27_TermListsSortedUnique ==
    (search_out # <<>> /\ search_out.call \in {"fresh", "pair", "district"}) =>
        /\ \A i, j \in DOMAIN search_out.result.terms_found :
               i < j => lt(search_out.result.terms_found[i], search_out.result.terms_found[j])
        /\ \A i, j \in DOMAIN search_out.result.school_terms_found :
               i < j => lt(search_out.result.school_terms_found[i],
                           search_out.result.school_terms_found[j])
        /\ \A i, j \in DOMAIN search_out.result.district_terms_found :
               i < j => lt(search_out.result.district_terms_found[i],
                           search_out.result.district_terms_found[j])

\* C28: from any delay d in [min_delay, max_delay], six successful fetches in
\* a row leave the delay at most max(min_delay, 0.9 d) and not below
\* min_delay; three failed fetches in a row leave it at least
\* min(max_delay, 1.5 d), in whole milliseconds, and not above max_delay.
C28_StepSizes ==
    /\ \A i \in 1..(Len(fetched) - 5) :
           (/\ \A k \in i..(i + 5) : fetched[k].ok
            /\ min_delay <= fetched[i].before /\ fetched[i].before <= max_delay)
           => /\ fetched[i + 5].after * 10 <= Max(min_delay * 10, 9 * fetched[i].before)
              /\ fetched[i + 5].after >= min_delay
    /\ \A i \in 1..(Len(fetched) - 2) :
           (/\ \A k \in i..(i + 2) : ~fetched[k].ok
            /\ min_delay <= fetched[i].before /\ fetched[i].before <= max_delay)
           => /\ fetched[i + 2].after >= Min(max_delay, (3 * fetched[i].before) \div 2)
              /\ fetched[i + 2].after <= max_delay

\* six successes in a row have reduced a delay of 1000 ms to 900 ms, and three
\* failures in a row have raised a delay again
C28_Witness ==
    /\ \E i \in 1..(Len(fetched) - 5) :
           /\ \A k \in i..(i + 5) : fetched[k].ok
           /\ fetched[i].before = 1000 /\ fetched[i + 5].after = 900
    /\ \E i \in 1..(Len(fetched) - 2) :
           /\ \A k \in i..(i + 2) : ~fetched[k].ok
           /\ min_delay < fetched[i].before /\ fetched[i].before < max_delay
           /\ fetched[i + 2].after > fetched[i].before

\* C29: once a crawl has fetched, current_delay lies within
\* [min_delay, max_delay], whatever the delay the scraper started with and
\* whatever the fetches did.
C29_DelayWithinBounds ==
    fetched # <<>> => (min_delay <= current_delay /\ current_delay <= max_delay)

-----------------------------------------------------------------------------
(* C30: unverified requests.                                               *)

\* the positions of the unverified gets in a call's log
C30_Unverified(reqs) == {j \in 1..Len(reqs) : ~reqs[j].verify}

\* a verified get that raised an SSLError whose text names the handshake
C30_HandshakeFailure(r) == r.verify /\ r.exc.type = "SSLError" /\ r.exc.handshake

\* the toggles: the browser-mimicking client and the manual plain retry are
\* the first layer, the single get that ends the call is the last resort
C30_Toggles(reqs) ==
    /\ (~cfg.ssl_fallback /\ ~cfg.ssl_retry_unverified) => C30_Unverified(reqs) = {}
    /\ \A j \in C30_Unverified(reqs) :
          /\ reqs[j].client = "cloudscraper" => cfg.ssl_fallback
          /\ ~cfg.ssl_fallback =>
                /\ cfg.ssl_retry_unverified
                /\ j = Len(reqs) /\ reqs[j].client = "plain" /\ reqs[j].url = last.url
    /\ last.res.layer = "last_resort" => cfg.ssl_retry_unverified
    /\ last.res.layer \in {"cloudscraper_unverified", "plain_unverified",
                           "bot_retry_unverified"} => cfg.ssl_fallback

\* C30 as stated: in every call of scrape_page, each unverified request comes
\* after a verified request for the same URL that failed with a TLS handshake
\* error, and only under the toggle of the layer that issues it; with both
\* toggles off no request is unverified.
C30_UnverifiedOnlyAfterFailureOfSameURL ==
    last.called =>
        /\ C30_Toggles(last.res.reqs)
        /\ \A j \in C30_Unverified(last.res.reqs) :
              \E i \in 1..(j - 1) :
                 /\ C30_HandshakeFailure(last.res.reqs[i])
                 /\ last.res.reqs[i].url = last.res.reqs[j].url

\* C30, redirect chains included: in every call of scrape_page, each
\* unverified request comes after a verified request of the same call that
\* failed with a TLS handshake error, and is for the call's URL or follows an
\* unverified request for the call's URL as its redirect target; each is
\* issued only under the toggle of its layer, and with both toggles off no
\* request is unverified.
C30_UnverifiedOnlyAfterHandshakeFailure ==
    last.called =>
        /\ C30_Toggles(last.res.reqs)
        /\ \A j \in C30_Unverified(last.res.reqs) :
              /\ \E i \in 1..(j - 1) : C30_HandshakeFailure(last.res.reqs[i])
              /\ \/ last.res.reqs[j].url = last.url
                 \/ /\ j > 1
                    /\ ~last.res.reqs[j - 1].verify
                    /\ last.res.reqs[j - 1].url = last.url
                    /\ last.res.reqs[j - 1].client = last.res.reqs[j].client

\* the last-resort layer alone: the first-layer toggle is off, the verified
\* attempt failed in the handshake and the unverified get returned the page
C30_Witness ==
    /\ last.called /\ ~cfg.ssl_fallback /\ cfg.ssl_retry_unverified
    /\ last.res.layer = "last_resort" /\ last.res.page # NoPage
    /\ Len(last.res.reqs) >= 2
    /\ C30_HandshakeFailure(last.res.reqs[1])
    /\ ~last.res.reqs[Len(last.res.reqs)].verify

-----------------------------------------------------------------------------

\* C31: the fifth successful fetch in a row (counted from a streak of zero)
\* multiplies a delay above min_delay by 0.9, not below min_delay, and resets
\* the success streak to 0; a failure resets the success streak and a success
\* resets the error streak.
C31_FifthSuccessReducesDelay ==
    /\ \A i \in 1..(Len(fetched) - 4) :
           (/\ \A k \in i..(i + 4) : fetched[k].ok
            /\ (i = 1 \/ ~fetched[i - 1].ok)
            /\ fetched[i].before > min_delay)
           => /\ fetched[i + 4].after = Max(min_delay, (9 * fetched[i].before) \div 10)
              /\ (i + 4 = Len(fetched) => consecutive_successes = 0)
    /\ (fetched # <<>> /\ ~fetched[Len(fetched)].ok) => consecutive_successes = 0
    /\ (fetched # <<>> /\ fetched[Len(fetched)].ok) => consecutive_errors = 0

\* C31, counted as the code counts: the sixth successful fetch in a row
\* (counted from a streak of zero) multiplies a delay above min_delay by 0.9,
\* in whole milliseconds and not below min_delay, and resets the success
\* streak to 0, and the five before it leave the delay alone; a failure
\* resets the success streak and a success resets the error streak.
C31_SixthSuccessReducesDelay ==
    /\ \A i \in 1..(Len(fetched) - 5) :
           (/\ \A k \in i..(i + 5) : fetched[k].ok
            /\ (i = 1 \/ ~fetched[i - 1].ok)
            /\ fetched[i].before > min_delay)
           => /\ \A k \in i..(i + 4) : fetched[k].after = fetched[i].before
              /\ fetched[i + 5].after = Max(min_delay, (9 * fetched[i].before) \div 10)
              /\ (i + 5 = Len(fetched) => consecutive_successes = 0)
    /\ (fetched # <<>> /\ ~fetched[Len(fetched)].ok) => consecutive_successes = 0
    /\ (fetched # <<>> /\ fetched[Len(fetched)].ok) => consecutive_errors = 0

\* a failure, then six successes from 1000 ms: the sixth has just reduced the
\* delay to 900 ms and the streak is back at 0
C31_Witness ==
    /\ Len(fetched) >= 7
    /\ ~fetched[Len(fetched) - 6].ok
    /\ \A k \in (Len(fetched) - 5)..Len(fetched) : fetched[k].ok
    /\ fetched[Len(fetched) - 5].before = 1000
    /\ current_delay = 900 /\ consecutive_successes = 0 /\ consecutive_errors = 0

-----------------------------------------------------------------------------

\* C32: after every fetch of a crawl, whether it returned a page or not, the
\* crawl sleeps the current delay before the next entry of the queue is
\* looked at.
C32_SleepsAfterEveryFetch ==
    /\ \A k \in DOMAIN fetched : fetched[k].slept > 0
    /\ fetched # <<>> => fetched[Len(fetched)].slept = current_delay

-----------------------------------------------------------------------------

\* C33: for a fetched page that is not fetched for its links only and lies at
\* a depth below max_depth, the links are left alone exactly when the text is
\* shorter than min_content_length and contains no search term; a shorter
\* text that contains a term, however short, has its links enqueued.
C33_ShortRelevantPagesFollowed ==
    \A k \in DOMAIN fetched :
        (fetched[k].ok /\ ~fetched[k].skip /\ fetched[k].depth < site.max_depth)
        => /\ fetched[k].followed <=>
                 ~(fetched[k].text.len < min_content_length /\ ~fetched[k].text.term)
           /\ fetched[k].followed =>
                 fetched[k].enqueued = LinksToEnqueue(fetched[k].links, fetched[k].visited)

-----------------------------------------------------------------------------

\* C34: within one crawl the depths of the URLs fetched one after the other
\* never decrease, no URL is fetched at a depth above max_depth, and the seed
\* is the only URL fetched at depth 0; the queue holds its entries in the
\* order of their depths, none deeper than max_depth.
C34_BreadthFirst ==
    /\ \A k \in DOMAIN fetched :
          /\ fetched[k].depth <= site.max_depth
          /\ fetched[k].depth = 0 <=> k = 1
          /\ k = 1 => fetched[k].url = site.base_url
          /\ k > 1 => fetched[k - 1].depth <= fetched[k].depth
    /\ \A j \in DOMAIN url_queue :
          /\ url_queue[j].depth <= site.max_depth
          /\ j > 1 => url_queue[j - 1].depth <= url_queue[j].depth
          /\ fetched # <<>> => fetched[Len(fetched)].depth <= url_queue[j].depth

\* two pages fetched at depth 1 after the seed, the first of which had put
\* entries of depth 2 in the queue before the second was fetched
C34_Witness ==
    /\ Len(fetched) = 3
    /\ fetched[1].depth = 0 /\ fetched[2].depth = 1 /\ fetched[3].depth = 1
    /\ fetched[2].enqueued # {}
    /\ \E j \in DOMAIN url_queue : url_queue[j].depth = 2

-----------------------------------------------------------------------------

-----------------------------------------------------------------------------
(* C36: fetch failures stay inside scrape_page and scrape_site.            *)

\* a call of scrape_page that has just returned res
C36_Call(res) ==
    /\ ~res.raised
    /\ res.page = NoPage => (visited_urls' = visited_urls /\ scraped_pages' = scraped_pages)

\* a fetch of a crawl that has just been logged as f
C36_Fetch(f) ==
    /\ ~f.raised
    /\ spc' = "loop"
    /\ ~f.ok => /\ visited_urls' = visited_urls /\ scraped_pages' = scraped_pages
                /\ url_queue' = Tail(url_queue)

\* C36: no exception leaves scrape_page or scrape_site, whatever the class of
\* the failure and whichever attempt raised it: a call that failed returns no
\* page and leaves the visited set and the collected pages as they were, and
\* the crawl stays in its loop with the next entry of the queue.
C36_FailuresContained ==
    [][/\ (last' # last /\ last'.called) => C36_Call(last'.res)
       /\ Len(fetched') > Len(fetched) => C36_Fetch(fetched'[Len(fetched')])]_vars

\* a call that returned no page after its unverified TLS fallback attempt
\* raised an exception that is neither an SSL nor a requests error
C36_Witness ==
    /\ last.called /\ last.res.page = NoPage /\ ~last.res.raised
    /\ visited_urls = {} /\ scraped_pages = <<>>
    /\ \E j \in DOMAIN last.res.reqs :
          /\ ~last.res.reqs[j].verify
          /\ last.res.reqs[j].exc.type = "Exception"

-----------------------------------------------------------------------------

\* the set calls of line 1304, which follow a crawl: the list passed is the
\* caller's own
C37_Crawls == {i \in 1..Len(set_log) : set_log[i].pages = set_log[i].school_id}

\* C37: a canonical URL is crawled at most once in a process: no two crawls
\* have one key, and a thread that looks a URL up after a crawl of its key
\* was cached does not put it on its list of URLs to scrape.
C37_EachKeyCrawledOnce ==
    /\ \A i, j \in C37_Crawls : set_log[i].key = set_log[j].key => i = j
    /\ \A t \in Tasks :
          \A k \in DOMAIN tasks[t].urls_to_scrape :
              tasks[t].pc \in {"district", "early"}
                  => normalize_key(tasks[t].urls_to_scrape[k].url) \notin DOMAIN url_cache

-----------------------------------------------------------------------------

\* C38: a run in which every row of a non-empty input is already recorded
\* submits nothing and ends normally: run() returns without an error, no
\* record of this run is in the CSV, and the final checkpoint is written.
C38_AllSkippedRunCompletes ==
    (/\ run.pc \in {"done", "fatal"}
     /\ run.input # <<>> /\ run.schools_list = <<>>)
    => /\ run.pc = "done"
       /\ \A k \in DOMAIN csv : csv[k].run # run.n
       /\ ~run.save_failed => (progress_file.exists /\ progress_file.completed)

-----------------------------------------------------------------------------

\* C39: a crawl keeps to the arguments it was called with: no URL is fetched
\* deeper than the max_depth argument, no more pages are collected than the
\* max_pages argument, and with max_depth = 0 only the seed is fetched and no
\* link is enqueued.
C39_ArgumentsHonoured ==
    spc \in {"loop", "done"} =>
        /\ \A k \in DOMAIN fetched : fetched[k].depth <= site.args.max_depth
        /\ Len(scraped_pages) <= site.args.max_pages
        /\ site.args.max_depth = 0 =>
              /\ Len(fetched) <= 1
              /\ \A k \in DOMAIN fetched : fetched[k].enqueued = {}

====
